---- MODULE Spec2Model ----
(***************************************************************************)
(* Key custody (password setup / unlock / lock, lockout, in-memory         *)
(* sessions) and the trigger-order scheduler of the Solana/Base trading    *)
(* bot, as state machines over the SQLite tables and the module-level      *)
(* variables of the services.                                              *)
(*                                                                         *)
(* Time is counted in minutes.  Ciphertexts are symbolic: a blob records   *)
(* its number of colon-separated fields, the key it was produced under and *)
(* the plaintext; decryption yields the plaintext only under the same key  *)
(* and the expected field count.  Random salts and IVs are left out, so    *)
(* two encryptions of one secret under one key give the same blob.         *)
(***************************************************************************)
EXTENDS Integers, Sequences, FiniteSets, TLC

VARIABLES
  now,              \* Date.now(), in minutes
  userSecurity,     \* table user_security: user -> [passwordHash, transferLimitSol, transferLimitEth]
  whitelist,        \* table withdrawal_whitelist: set of <<user, network, address>>
  wallets,          \* table wallets: <<user, network>> -> [address, encryptedPrivateKey, encryptionVersion]
  loginAttempts,    \* table login_attempts: user -> sequence of [time, success]
  sessions,         \* session-manager.ts `sessions` map: user -> Session
  orders,           \* table trigger_orders: sequence indexed by id
  isMonitoring,     \* trigger-orders service flag
  monitoringTimeout,\* handle of the timer set last (0 = null)
  bot,              \* TRUE once initTriggerOrderService has run
  loops,            \* timer chains: each a pending timer or a poll cycle in flight
  swapCalls,        \* per order: invocations of the swap collaborator
  notifyCalls,      \* per order: sendMessage invocations
  markCount,        \* per order: rows updated by markOrderTriggered
  staleEvals        \* evaluations of an order whose stored status was not 'active': [id, status]

custodyVars == <<now, userSecurity, whitelist, wallets, loginAttempts, sessions>>
schedVars == <<orders, isMonitoring, monitoringTimeout, bot, loops,
               swapCalls, notifyCalls, markCount, staleEvals>>
vars == <<now, userSecurity, whitelist, wallets, loginAttempts, sessions,
          orders, isMonitoring, monitoringTimeout, bot, loops,
          swapCalls, notifyCalls, markCount, staleEvals>>

----------------------------------------------------------------------------
(* Bounds of the model *)

MaxOrders == 2      \* rows ever inserted into trigger_orders
MaxLoops == 2       \* timer chains that may exist at once
MaxAttempts == 6    \* rows in login_attempts (lockout specification)
MaxTime == 15       \* last minute of the clock (lockout specification)
MaxCustodyAttempts == 2   \* rows in login_attempts (custody specification)
MaxCustodyTime == 40      \* last minute of the clock (custody specification)
MaxMigrationAttempts == 1 \* rows in login_attempts (migration specification)
MaxAmount == 11           \* largest amount of a withdrawal asked about, in tenths

Users == {1, 2}
Networks == {"solana", "base"}
Loops == 1..MaxLoops

----------------------------------------------------------------------------
(* Generic helpers: nullable values and Map objects *)

None == <<>>
Some(x) == <<x>>

EmptyMap == [k \in {} |-> 0]
MapPut(m, k, v) == [x \in (DOMAIN m) \cup {k} |-> IF x = k THEN v ELSE m[x]]
MapDelete(m, k) == [x \in (DOMAIN m) \ {k} |-> m[x]]

----------------------------------------------------------------------------
(* Cipher primitives (symbolic) *)

\* createSessionEncryption().encrypt: iv:tag:ciphertext under the session key
SessionEncrypt(sessionKey, data) ==
  [fields |-> 3, key |-> <<"session", "", sessionKey>>, data |-> data]

\* createSessionEncryption().decrypt: null on a wrong field count or key
SessionDecrypt(sessionKey, blob) ==
  IF blob.fields # 3 THEN None
  ELSE IF blob.key = <<"session", "", sessionKey>> THEN Some(blob.data)
  ELSE None

----------------------------------------------------------------------------
(* Session manager *)

SESSION_TIMEOUT_MIN == 30

\* the capacity of the session map: 10000 in the source, scaled to the
\* users of the model
MAX_SESSIONS == 3

\* a mutation of getSession: the expiry test is dropped
SessionPresent(sess, u, t) == u \in DOMAIN sess

\* getSession: the session, unless absent or expired
SessionLive(sess, u, t) == u \in DOMAIN sess /\ ~(sess[u].expiresAt < t)

\* getSession deletes an expired session when it meets one
SessionsAfterGet(sess, u, t) ==
  IF u \in DOMAIN sess /\ sess[u].expiresAt < t THEN MapDelete(sess, u) ELSE sess

\* getKeyFromSession
GetKeyFromSession(sess, u, n, t) ==
  IF ~SessionLive(sess, u, t) THEN None
  ELSE IF n \notin DOMAIN sess[u].encryptedKeys THEN None
  ELSE SessionDecrypt(sess[u].sessionKey, sess[u].encryptedKeys[n])

\* security.getPrivateKey
GetPrivateKey(sess, u, n, t) == GetKeyFromSession(sess, u, n, t)

----------------------------------------------------------------------------
(* Password-keyed and legacy cipher primitives (symbolic) *)

\* config.walletEncryptionKey, the process-wide legacy key
WalletEncryptionKey == "serverkey"

\* a mutation of deriveKeyFromPassword: the user id is not mixed in
DeriveKeyFromPasswordOnly(password, u) == password

\* deriveKeyFromPassword: PBKDF2 of the string `${password}:${telegramUserId}`
\* under the salt kept with the hash or ciphertext.  The derived bytes are
\* stood for by the string they are derived from.
DeriveKeyFromPassword(password, u) == password \o ":" \o ToString(u)

\* hashPassword: salt:hash, the hash derived from `${password}:${telegramUserId}`
HashPassword(password, u) ==
  [fields |-> 2, hash |-> DeriveKeyFromPassword(password, u)]

\* verifyPassword: recompute under the stored salt and compare
VerifyPassword(password, u, storedHash) ==
  IF storedHash.fields # 2 THEN FALSE
  ELSE storedHash.hash = DeriveKeyFromPassword(password, u)

\* encryptWithPassword: salt:iv:authTag:ciphertext
EncryptWithPassword(plaintext, password, u) ==
  [fields |-> 4, key |-> <<"password", DeriveKeyFromPassword(password, u)>>,
   data |-> plaintext]

\* a mutation of decryptWithPassword: the authentication tag is not
\* verified, so a wrong key yields bytes instead of null
DecryptWithPasswordUnauthenticated(blob, password, u) ==
  IF blob.fields # 4 THEN None
  ELSE IF blob.key = <<"password", DeriveKeyFromPassword(password, u)>>
  THEN Some(blob.data)
  ELSE Some(<<"garbage">>)

\* decryptWithPassword: null unless 4 fields and the tag verifies
DecryptWithPassword(blob, password, u) ==
  IF blob.fields # 4 THEN None
  ELSE IF blob.key = <<"password", DeriveKeyFromPassword(password, u)>>
  THEN Some(blob.data)
  ELSE None

\* utils/encryption.ts encrypt: iv:ciphertext under the server key
\* (aes-256-cbc, no authentication tag).  pad tells whether the bytes happen
\* to end in valid padding when deciphered under a key other than their own;
\* it is never read for a ciphertext deciphered under its own key.
LegacyEncrypt(text) ==
  [fields |-> 2, key |-> <<"server", WalletEncryptionKey, 0>>, data |-> text,
   pad |-> FALSE]

\* decryptLegacy: null on a wrong field count; under the right key the
\* plaintext; under another key decipher.final throws on bad padding (null)
\* and returns the deciphered bytes when the padding happens to be valid
DecryptLegacy(blob, serverKey) ==
  IF blob.fields # 2 THEN None
  ELSE IF blob.key = <<"server", serverKey, 0>> THEN Some(blob.data)
  ELSE IF blob.pad THEN Some(<<"garbage">>)
  ELSE None

\* isLegacyFormat
IsLegacyFormat(blob) == blob.fields = 2

----------------------------------------------------------------------------
(* Custody store (database.ts wallets, security-database) *)

LOCKOUT_MINUTES == 15
MAX_FAILED_ATTEMPTS == 5
ATTEMPT_RETENTION_MIN == 1440
MIN_PASSWORD_LENGTH == 6
DEFAULT_LIMIT_SOL == 10   \* 1.0 SOL; amounts and limits are counted in tenths
DEFAULT_LIMIT_ETH == 1    \* 0.1 ETH

\* hasUserSecurity
HasUserSecurity(us, u) == u \in DOMAIN us

\* saveWallet: INSERT ... ON CONFLICT DO UPDATE of address and ciphertext;
\* a new row gets the column default encryption_version 1
SaveWallet(ws, u, n, address, blob) ==
  IF <<u, n>> \in DOMAIN ws
  THEN [ws EXCEPT ![<<u, n>>].address = address,
                  ![<<u, n>>].encryptedPrivateKey = blob]
  ELSE MapPut(ws, <<u, n>>, [address |-> address, encryptedPrivateKey |-> blob,
                             encryptionVersion |-> 1])

\* setWalletEncryptionVersion: UPDATE wallets SET encryption_version
SetWalletEncryptionVersion(ws, u, n, version) ==
  IF <<u, n>> \in DOMAIN ws THEN [ws EXCEPT ![<<u, n>>].encryptionVersion = version]
  ELSE ws

\* getWalletEncryptionVersion: row?.encryption_version || 1
GetWalletEncryptionVersion(ws, u, n) ==
  IF <<u, n>> \in DOMAIN ws /\ ws[<<u, n>>].encryptionVersion # 0
  THEN ws[<<u, n>>].encryptionVersion ELSE 1

\* getAllWallets(user): the networks the user has a row for
WalletNetworks(ws, u) == {n \in Networks : <<u, n>> \in DOMAIN ws}

\* recordLoginAttempt: INSERT the attempt, then DELETE the user's rows older
\* than 24 hours
RecordLoginAttempt(la, u, success, t) ==
  LET added == Append(la[u], [time |-> t, success |-> success])
      Recent(r) == ~(r.time < t - ATTEMPT_RETENTION_MIN)
  IN [la EXCEPT ![u] = SelectSeq(added, Recent)]

\* a mutation of getFailedAttemptCount: the success = 0 test is dropped
GetAttemptCount(la, u, minutes, t) ==
  LET RecentAttempt(r) == r.time > t - minutes
  IN Len(SelectSeq(la[u], RecentAttempt))

\* getFailedAttemptCount: failed rows with attempt_time > now - minutes
GetFailedAttemptCount(la, u, minutes, t) ==
  LET RecentFailure(r) == r.time > t - minutes /\ ~r.success
  IN Len(SelectSeq(la[u], RecentFailure))

\* MAX(attempt_time) over the user's failed rows, 0 when there is none
LastFailedAttempt(la, u) ==
  LET times == {la[u][i].time : i \in {j \in DOMAIN la[u] : ~la[u][j].success}}
  IN IF times = {} THEN 0 ELSE CHOOSE m \in times : \A x \in times : x <= m

\* isLockedOut
IsLockedOut(la, u, t) ==
  LET failedCount == GetFailedAttemptCount(la, u, LOCKOUT_MINUTES, t)
      lockUntil == LastFailedAttempt(la, u) + LOCKOUT_MINUTES
  IN IF failedCount >= MAX_FAILED_ATTEMPTS /\ t < lockUntil
     THEN [locked |-> TRUE, unlockIn |-> lockUntil - t]
     ELSE [locked |-> FALSE, unlockIn |-> 0]

----------------------------------------------------------------------------
(* Session manager: creation and storing *)

\* the sessions left after the periodic sweep / the sweep inside createSession
WithoutExpired(sess, t) ==
  [u \in {v \in DOMAIN sess : ~(sess[v].expiresAt < t)} |-> sess[u]]

\* the entry sorted first by unlockedAt
OldestSession(sess) ==
  CHOOSE u \in DOMAIN sess :
    \A v \in DOMAIN sess : sess[u].unlockedAt < sess[v].unlockedAt
                           \/ (sess[u].unlockedAt = sess[v].unlockedAt /\ u <= v)

\* a session key no other live session uses (crypto.randomBytes)
FreshSessionKey(sess) ==
  CHOOSE k \in 1..(Cardinality(DOMAIN sess) + 1) :
    /\ \A v \in DOMAIN sess : sess[v].sessionKey # k
    /\ \A j \in 1..(k - 1) : \E v \in DOMAIN sess : sess[v].sessionKey = j

\* a mutation of createSession: no room is made in a full map
CreateSessionNoEviction(sess, u, t) ==
  MapPut(sess, u, [unlockedAt |-> t, expiresAt |-> t + SESSION_TIMEOUT_MIN,
                   encryptedKeys |-> EmptyMap,
                   sessionKey |-> FreshSessionKey(sess)])

\* createSession
CreateSession(sess, u, t) ==
  LET swept == IF Cardinality(DOMAIN sess) >= MAX_SESSIONS
               THEN WithoutExpired(sess, t) ELSE sess
      room == IF Cardinality(DOMAIN swept) >= MAX_SESSIONS
              THEN MapDelete(swept, OldestSession(swept)) ELSE swept
  IN MapPut(room, u, [unlockedAt |-> t, expiresAt |-> t + SESSION_TIMEOUT_MIN,
                      encryptedKeys |-> EmptyMap,
                      sessionKey |-> FreshSessionKey(room)])

\* storeKeyInSession
StoreKeyInSession(sess, u, n, privateKey, t) ==
  IF ~SessionLive(sess, u, t) THEN SessionsAfterGet(sess, u, t)
  ELSE [sess EXCEPT ![u].encryptedKeys =
          MapPut(@, n, SessionEncrypt(sess[u].sessionKey, privateKey))]

----------------------------------------------------------------------------
(* Custody service (security.ts) *)

\* decryptPrivateKey: legacy path for version-1 two-field blobs, password
\* path otherwise
DecryptPrivateKey(ws, u, n, password) ==
  IF <<u, n>> \notin DOMAIN ws THEN None
  ELSE LET blob == ws[<<u, n>>].encryptedPrivateKey IN
       IF GetWalletEncryptionVersion(ws, u, n) = 1 /\ IsLegacyFormat(blob)
       THEN DecryptLegacy(blob, WalletEncryptionKey)
       ELSE DecryptWithPassword(blob, password, u)

\* a mutation of the loop of unlock: the first wallet that fails to decrypt
\* ends the loop
RECURSIVE CacheWalletKeysUntilFailure(_, _, _, _, _, _)
CacheWalletKeysUntilFailure(sess, ws, u, password, todo, t) ==
  IF todo = {} THEN sess
  ELSE LET n == CHOOSE x \in todo : TRUE
           privateKey == DecryptPrivateKey(ws, u, n, password)
       IN IF privateKey = None THEN sess
          ELSE CacheWalletKeysUntilFailure(
                 StoreKeyInSession(sess, u, n, privateKey[1], t),
                 ws, u, password, todo \ {n}, t)

\* the loop of unlock over the user's wallets: cache every key that decrypts
RECURSIVE CacheWalletKeys(_, _, _, _, _, _)
CacheWalletKeys(sess, ws, u, password, todo, t) ==
  IF todo = {} THEN sess
  ELSE LET n == CHOOSE x \in todo : TRUE
           privateKey == DecryptPrivateKey(ws, u, n, password)
           stored == IF privateKey # None
                     THEN StoreKeyInSession(sess, u, n, privateKey[1], t)
                     ELSE sess
       IN CacheWalletKeys(stored, ws, u, password, todo \ {n}, t)

\* a mutation of the loop of changePassword: the result of decryptPrivateKey
\* is not tested before it is encrypted and saved
RECURSIVE ReencryptWalletsUntested(_, _, _, _, _)
ReencryptWalletsUntested(ws, u, currentPassword, newPassword, todo) ==
  IF todo = {} THEN ws
  ELSE LET n == CHOOSE x \in todo : TRUE
           privateKey == DecryptPrivateKey(ws, u, n, currentPassword)
           saved == SetWalletEncryptionVersion(
                      SaveWallet(ws, u, n, ws[<<u, n>>].address,
                                 EncryptWithPassword(
                                   IF privateKey = None THEN <<"null">> ELSE privateKey[1],
                                   newPassword, u)),
                      u, n, 2)
       IN ReencryptWalletsUntested(saved, u, currentPassword, newPassword, todo \ {n})

\* the loop of changePassword over the user's wallets: re-encrypt every
\* wallet that decrypts under the current password (or the legacy key)
RECURSIVE ReencryptWallets(_, _, _, _, _)
ReencryptWallets(ws, u, currentPassword, newPassword, todo) ==
  IF todo = {} THEN ws
  ELSE LET n == CHOOSE x \in todo : TRUE
           privateKey == DecryptPrivateKey(ws, u, n, currentPassword)
           saved == IF privateKey = None THEN ws
                    ELSE SetWalletEncryptionVersion(
                           SaveWallet(ws, u, n, ws[<<u, n>>].address,
                                      EncryptWithPassword(privateKey[1], newPassword, u)),
                           u, n, 2)
       IN ReencryptWallets(saved, u, currentPassword, newPassword, todo \ {n})

\* setupPassword: what it returns
SetupPasswordResult(us, u, password) ==
  IF HasUserSecurity(us, u)
  THEN [success |-> FALSE, error |-> "Password already set up"]
  ELSE IF Len(password) < MIN_PASSWORD_LENGTH
  THEN [success |-> FALSE, error |-> "Password must be at least 6 characters"]
  ELSE [success |-> TRUE, error |-> ""]

\* a row of user_security as INSERT makes it: the limits take the column
\* defaults
UserSecurityRow(passwordHash) ==
  [passwordHash |-> passwordHash,
   transferLimitSol |-> DEFAULT_LIMIT_SOL, transferLimitEth |-> DEFAULT_LIMIT_ETH]

\* needsPasswordSetup
NeedsPasswordSetup(us, u) == ~HasUserSecurity(us, u)

\* createUserSecurity: INSERT the user's row
CreateUserSecurity(us, u, passwordHash) ==
  MapPut(us, u, UserSecurityRow(passwordHash))

\* a mutation of setupPassword: the length test is dropped
SetupPasswordStoreAnyLength(us, u, password) ==
  IF HasUserSecurity(us, u) THEN us
  ELSE CreateUserSecurity(us, u, HashPassword(password, u))

\* setupPassword: the user_security table it leaves
SetupPasswordStore(us, u, password) ==
  IF SetupPasswordResult(us, u, password).success
  THEN CreateUserSecurity(us, u, HashPassword(password, u))
  ELSE us

\* setupPassword
SetupPassword(u, password) ==
  /\ userSecurity' = SetupPasswordStore(userSecurity, u, password)
  /\ UNCHANGED <<now, wallets, loginAttempts, sessions>>
  /\ UNCHANGED <<whitelist, schedVars>>

\* unlock: what it returns and the login_attempts table and session map it
\* leaves, from the tables la, us, ws and the session map sess at time t
UnlockOutcome(la, us, ws, sess, u, password, t) ==
  LET lockout == IsLockedOut(la, u, t) IN
  IF lockout.locked
  THEN [success |-> FALSE, error |-> "Too many failed attempts", remaining |-> 0,
        lockoutMinutes |-> lockout.unlockIn, loginAttempts |-> la, sessions |-> sess]
  ELSE IF ~HasUserSecurity(us, u)
  THEN [success |-> FALSE, error |-> "Please set up a password first", remaining |-> 0,
        lockoutMinutes |-> 0, loginAttempts |-> la, sessions |-> sess]
  ELSE IF ~VerifyPassword(password, u, us[u].passwordHash)
  THEN LET recorded == RecordLoginAttempt(la, u, FALSE, t)
           failedCount == GetFailedAttemptCount(recorded, u, 15, t)
           remaining == 5 - failedCount
       IN [success |-> FALSE,
           error |-> IF remaining > 0 THEN "Incorrect password"
                     ELSE "Account locked for 15 minutes",
           remaining |-> remaining, lockoutMinutes |-> 0,
           loginAttempts |-> recorded, sessions |-> sess]
  ELSE [success |-> TRUE, error |-> "", remaining |-> 0, lockoutMinutes |-> 0,
        loginAttempts |-> RecordLoginAttempt(la, u, TRUE, t),
        sessions |-> CacheWalletKeys(CreateSession(sess, u, t), ws, u, password,
                                     WalletNetworks(ws, u), t)]

\* unlock
Unlock(u, password) ==
  LET out == UnlockOutcome(loginAttempts, userSecurity, wallets, sessions,
                           u, password, now)
  IN /\ loginAttempts' = out.loginAttempts
     /\ sessions' = out.sessions
     /\ UNCHANGED <<now, userSecurity, wallets>>
     /\ UNCHANGED <<whitelist, schedVars>>

\* a mutation of lockSession: the whole map is cleared
LockAllSessions(sess, u) == EmptyMap

\* lockSession
LockSession(sess, u) == MapDelete(sess, u)

\* lock
Lock(u) ==
  /\ sessions' = LockSession(sessions, u)
  /\ UNCHANGED <<now, userSecurity, wallets, loginAttempts>>
  /\ UNCHANGED <<whitelist, schedVars>>

\* a mutation of changePassword: the length of the new password is tested
\* after the wallets, the hash and the session have been dealt with
ChangePasswordLateLengthTest(la, us, ws, sess, u, currentPassword, newPassword, t) ==
  IF ~HasUserSecurity(us, u)
  THEN [success |-> FALSE, error |-> "No security setup found",
        loginAttempts |-> la, userSecurity |-> us, wallets |-> ws, sessions |-> sess]
  ELSE IF ~VerifyPassword(currentPassword, u, us[u].passwordHash)
  THEN [success |-> FALSE, error |-> "Current password is incorrect",
        loginAttempts |-> RecordLoginAttempt(la, u, FALSE, t),
        userSecurity |-> us, wallets |-> ws, sessions |-> sess]
  ELSE [success |-> ~(Len(newPassword) < MIN_PASSWORD_LENGTH),
        error |-> IF Len(newPassword) < MIN_PASSWORD_LENGTH
                  THEN "New password must be at least 6 characters" ELSE "",
        loginAttempts |-> la,
        userSecurity |-> [us EXCEPT ![u].passwordHash = HashPassword(newPassword, u)],
        wallets |-> ReencryptWallets(ws, u, currentPassword, newPassword,
                                     WalletNetworks(ws, u)),
        sessions |-> LockSession(sess, u)]

\* changePassword: what it returns and the tables and session map it leaves
ChangePasswordOutcome(la, us, ws, sess, u, currentPassword, newPassword, t) ==
  IF ~HasUserSecurity(us, u)
  THEN [success |-> FALSE, error |-> "No security setup found",
        loginAttempts |-> la, userSecurity |-> us, wallets |-> ws, sessions |-> sess]
  ELSE IF ~VerifyPassword(currentPassword, u, us[u].passwordHash)
  THEN [success |-> FALSE, error |-> "Current password is incorrect",
        loginAttempts |-> RecordLoginAttempt(la, u, FALSE, t),
        userSecurity |-> us, wallets |-> ws, sessions |-> sess]
  ELSE IF Len(newPassword) < MIN_PASSWORD_LENGTH
  THEN [success |-> FALSE, error |-> "New password must be at least 6 characters",
        loginAttempts |-> la, userSecurity |-> us, wallets |-> ws, sessions |-> sess]
  ELSE [success |-> TRUE, error |-> "", loginAttempts |-> la,
        userSecurity |-> [us EXCEPT ![u].passwordHash = HashPassword(newPassword, u)],
        wallets |-> ReencryptWallets(ws, u, currentPassword, newPassword,
                                     WalletNetworks(ws, u)),
        sessions |-> LockSession(sess, u)]

\* changePassword
ChangePassword(u, currentPassword, newPassword) ==
  LET out == ChangePasswordOutcome(loginAttempts, userSecurity, wallets, sessions,
                                   u, currentPassword, newPassword, now)
  IN /\ loginAttempts' = out.loginAttempts
     /\ userSecurity' = out.userSecurity
     /\ wallets' = out.wallets
     /\ sessions' = out.sessions
     /\ UNCHANGED now
     /\ UNCHANGED <<whitelist, schedVars>>

\* getPrivateKey(user, network): a read that drops an expired session
GetPrivateKeyCall(u, n) ==
  /\ sessions' = SessionsAfterGet(sessions, u, now)
  /\ UNCHANGED <<now, userSecurity, wallets, loginAttempts>>
  /\ UNCHANGED <<whitelist, schedVars>>

\* the setInterval callback of startSessionCleanup
SessionCleanup ==
  /\ sessions' = WithoutExpired(sessions, now)
  /\ UNCHANGED <<now, userSecurity, wallets, loginAttempts>>
  /\ UNCHANGED <<whitelist, schedVars>>

\* the clock advances by d minutes
Tick(d) ==
  /\ now' = now + d
  /\ UNCHANGED <<userSecurity, wallets, loginAttempts, sessions>>
  /\ UNCHANGED <<whitelist, schedVars>>

\* isUnlocked
IsUnlocked(sess, u, t) == SessionLive(sess, u, t)

\* the tail shared by createEncryptedWallet and saveEncryptedWallet:
\* encrypt, save, set version 2, cache in the session if unlocked
StoreEncryptedWallet(u, n, address, privateKey, password) ==
  /\ wallets' = SetWalletEncryptionVersion(
                  SaveWallet(wallets, u, n, address,
                             EncryptWithPassword(privateKey, password, u)),
                  u, n, 2)
  /\ sessions' = IF IsUnlocked(sessions, u, now)
                 THEN StoreKeyInSession(sessions, u, n, privateKey, now)
                 ELSE SessionsAfterGet(sessions, u, now)

\* createEncryptedWallet: what it returns
CreateEncryptedWalletResult(us, u, password) ==
  IF ~HasUserSecurity(us, u)
  THEN [success |-> FALSE, error |-> "Please set up security first"]
  ELSE IF ~VerifyPassword(password, u, us[u].passwordHash)
  THEN [success |-> FALSE, error |-> "Incorrect password"]
  ELSE [success |-> TRUE, error |-> ""]

\* createEncryptedWallet
CreateEncryptedWallet(u, n, address, privateKey, password) ==
  IF CreateEncryptedWalletResult(userSecurity, u, password).success
  THEN /\ StoreEncryptedWallet(u, n, address, privateKey, password)
       /\ UNCHANGED <<now, userSecurity, loginAttempts>>
       /\ UNCHANGED <<whitelist, schedVars>>
  ELSE /\ UNCHANGED custodyVars
       /\ UNCHANGED <<whitelist, schedVars>>

\* saveEncryptedWallet
SaveEncryptedWallet(u, n, address, privateKey, password) ==
  /\ StoreEncryptedWallet(u, n, address, privateKey, password)
  /\ UNCHANGED <<now, userSecurity, loginAttempts>>
  /\ UNCHANGED <<whitelist, schedVars>>

\* a mutation of migrateWallet: the version test is dropped
MigrateWalletAnyVersion(ws, u, n, newPassword) ==
  LET privateKey == IF <<u, n>> \in DOMAIN ws
                    THEN DecryptLegacy(ws[<<u, n>>].encryptedPrivateKey,
                                       WalletEncryptionKey)
                    ELSE None
      error == IF <<u, n>> \notin DOMAIN ws THEN "Wallet not found"
               ELSE IF privateKey = None THEN "Failed to decrypt wallet"
               ELSE ""
  IN [success |-> error = "", error |-> error,
      wallets |-> IF error # "" THEN ws
                  ELSE SetWalletEncryptionVersion(
                         SaveWallet(ws, u, n, ws[<<u, n>>].address,
                                    EncryptWithPassword(privateKey[1], newPassword, u)),
                         u, n, 2)]

\* migrateWallet: what it returns and the wallets table it leaves
MigrateWalletOutcome(ws, u, n, newPassword) ==
  LET privateKey == IF <<u, n>> \in DOMAIN ws
                    THEN DecryptLegacy(ws[<<u, n>>].encryptedPrivateKey,
                                       WalletEncryptionKey)
                    ELSE None
      error == IF <<u, n>> \notin DOMAIN ws THEN "Wallet not found"
               ELSE IF GetWalletEncryptionVersion(ws, u, n) >= 2
                    THEN "Wallet already using new encryption"
               ELSE IF privateKey = None THEN "Failed to decrypt wallet"
               ELSE ""
  IN [success |-> error = "", error |-> error,
      wallets |-> IF error # "" THEN ws
                  ELSE SetWalletEncryptionVersion(
                         SaveWallet(ws, u, n, ws[<<u, n>>].address,
                                    EncryptWithPassword(privateKey[1], newPassword, u)),
                         u, n, 2)]

\* migrateWallet
MigrateWallet(u, n, newPassword) ==
  /\ wallets' = MigrateWalletOutcome(wallets, u, n, newPassword).wallets
  /\ UNCHANGED <<now, userSecurity, loginAttempts, sessions>>
  /\ UNCHANGED <<whitelist, schedVars>>

\* the loop of migrateAllWallets: migrateWallet for each wallet in turn
RECURSIVE MigrateEach(_, _, _, _, _, _)
MigrateEach(ws, u, newPassword, todo, migrated, failed) ==
  IF todo = {} THEN [migrated |-> migrated, failed |-> failed, wallets |-> ws]
  ELSE LET n == CHOOSE x \in todo : TRUE
           result == MigrateWalletOutcome(ws, u, n, newPassword)
       IN IF result.success
          THEN MigrateEach(result.wallets, u, newPassword, todo \ {n},
                           migrated \cup {n}, failed)
          ELSE MigrateEach(result.wallets, u, newPassword, todo \ {n},
                           migrated, failed \cup {n})

\* migrateAllWallets: what it returns and the wallets table it leaves
MigrateAllWalletsOutcome(ws, u, newPassword) ==
  LET r == MigrateEach(ws, u, newPassword, WalletNetworks(ws, u), {}, {})
  IN [success |-> r.failed = {}, migrated |-> r.migrated, failed |-> r.failed,
      wallets |-> r.wallets]

\* migrateAllWallets
MigrateAllWallets(u, newPassword) ==
  /\ wallets' = MigrateAllWalletsOutcome(wallets, u, newPassword).wallets
  /\ UNCHANGED <<now, userSecurity, loginAttempts, sessions>>
  /\ UNCHANGED <<whitelist, schedVars>>

\* migrateWallet stopped by a failing statement or the end of the process
\* after saveWallet and before setWalletEncryptionVersion; the sessions are
\* lost when the process ends
MigrateWalletInterrupted(u, n, newPassword, restart) ==
  /\ MigrateWalletOutcome(wallets, u, n, newPassword).success
  /\ wallets' = SaveWallet(wallets, u, n, wallets[<<u, n>>].address,
                           EncryptWithPassword(
                             DecryptLegacy(wallets[<<u, n>>].encryptedPrivateKey,
                                           WalletEncryptionKey)[1],
                             newPassword, u))
  /\ sessions' = IF restart THEN EmptyMap ELSE sessions
  /\ UNCHANGED <<now, userSecurity, loginAttempts>>
  /\ UNCHANGED <<whitelist, schedVars>>

\* changePassword stopped inside its wallet loop: the wallets of done have
\* been dealt with, the wallet of half (if any) has been saved and its
\* version not yet set, the hash and the session have not been reached
ChangePasswordInterrupted(u, currentPassword, newPassword, done, half, restart) ==
  /\ HasUserSecurity(userSecurity, u)
  /\ VerifyPassword(currentPassword, u, userSecurity[u].passwordHash)
  /\ ~(Len(newPassword) < MIN_PASSWORD_LENGTH)
  /\ done \subseteq WalletNetworks(wallets, u)
  /\ half \subseteq WalletNetworks(wallets, u) \ done
  /\ Cardinality(half) <= 1
  /\ UNCHANGED <<now, userSecurity, loginAttempts>>
  /\ sessions' = IF restart THEN EmptyMap ELSE sessions
  /\ LET finished == ReencryptWallets(wallets, u, currentPassword, newPassword, done)
         Saved(n) ==
           LET privateKey == DecryptPrivateKey(wallets, u, n, currentPassword)
           IN IF privateKey = None THEN finished
              ELSE SaveWallet(finished, u, n, wallets[<<u, n>>].address,
                              EncryptWithPassword(privateKey[1], newPassword, u))
     IN wallets' = IF half = {} THEN finished ELSE Saved(CHOOSE n \in half : TRUE)
  /\ UNCHANGED <<whitelist, schedVars>>

\* the address of a wallet, derived from its secret key
AddressOf(privateKey) == <<"address", privateKey>>

\* createSolanaWallet / createBaseWallet of the server-key version: a wallet
\* that does not exist yet is stored under the legacy cipher
LegacyCreateWallet(u, n, privateKey) ==
  /\ <<u, n>> \notin DOMAIN wallets
  /\ wallets' = SaveWallet(wallets, u, n, AddressOf(privateKey),
                           LegacyEncrypt(privateKey))
  /\ UNCHANGED <<now, userSecurity, loginAttempts, sessions>>
  /\ UNCHANGED <<whitelist, schedVars>>

\* importSolanaWallet / importBaseWallet of the server-key version: the
\* ciphertext of an existing row is overwritten, its version column is kept
LegacyImportWallet(u, n, privateKey) ==
  /\ wallets' = SaveWallet(wallets, u, n, AddressOf(privateKey),
                           LegacyEncrypt(privateKey))
  /\ UNCHANGED <<now, userSecurity, loginAttempts, sessions>>
  /\ UNCHANGED <<whitelist, schedVars>>

\* refreshSession with the default timeout
RefreshSession(u) ==
  /\ sessions' = IF SessionLive(sessions, u, now)
                 THEN [sessions EXCEPT ![u].expiresAt = now + SESSION_TIMEOUT_MIN]
                 ELSE SessionsAfterGet(sessions, u, now)
  /\ UNCHANGED <<now, userSecurity, wallets, loginAttempts>>
  /\ UNCHANGED <<whitelist, schedVars>>

----------------------------------------------------------------------------
(* Withdrawal checks: whitelist and transfer limits *)

\* LOWER(address) of the whitelist queries
LowerAddress(a) == CASE a = "0xAB" -> "0xab"
                     [] a = "SoLaddr" -> "soladdr"
                     [] OTHER -> a

\* isAddressWhitelisted
IsAddressWhitelisted(wl, u, n, address) ==
  \E row \in wl : /\ row[1] = u
                  /\ row[2] = n
                  /\ LowerAddress(row[3]) = LowerAddress(address)

\* addToWhitelist: INSERT OR REPLACE on UNIQUE(user, network, address)
AddToWhitelist(u, n, address) ==
  /\ whitelist' = whitelist \cup {<<u, n, address>>}
  /\ UNCHANGED <<now, userSecurity, wallets, loginAttempts, sessions>>
  /\ UNCHANGED schedVars

\* removeFromWhitelist
RemoveFromWhitelist(u, n, address) ==
  /\ whitelist' = {row \in whitelist :
                     ~(/\ row[1] = u
                       /\ row[2] = n
                       /\ LowerAddress(row[3]) = LowerAddress(address))}
  /\ UNCHANGED <<now, userSecurity, wallets, loginAttempts, sessions>>
  /\ UNCHANGED schedVars

\* setTransferLimits with both limits given: UPDATE of the user's row
SetTransferLimits(us, u, limitSol, limitEth) ==
  IF u \in DOMAIN us
  THEN [us EXCEPT ![u].transferLimitSol = limitSol, ![u].transferLimitEth = limitEth]
  ELSE us

\* handleLimitsSetup: two numbers, neither negative, are stored as the limits
HandleLimitsSetup(u, sol, eth) ==
  /\ userSecurity' = IF sol < 0 \/ eth < 0 THEN userSecurity
                     ELSE SetTransferLimits(userSecurity, u, sol, eth)
  /\ UNCHANGED <<now, whitelist, wallets, loginAttempts, sessions>>
  /\ UNCHANGED schedVars

\* security.transferLimitSol || 1.0, security.transferLimitEth || 0.1
EffectiveTransferLimit(us, u, n) ==
  IF n = "solana"
  THEN (IF us[u].transferLimitSol # 0 THEN us[u].transferLimitSol ELSE DEFAULT_LIMIT_SOL)
  ELSE (IF us[u].transferLimitEth # 0 THEN us[u].transferLimitEth ELSE DEFAULT_LIMIT_ETH)

\* requiresPasswordForWithdraw
RequiresPasswordForWithdraw(us, wl, sess, u, n, toAddress, amount, t) ==
  IF ~IsUnlocked(sess, u, t) THEN TRUE
  ELSE IF IsAddressWhitelisted(wl, u, n, toAddress) THEN FALSE
  ELSE IF ~HasUserSecurity(us, u) THEN TRUE
  ELSE amount > EffectiveTransferLimit(us, u, n)

----------------------------------------------------------------------------
(* Order store (trigger-orders-db) *)

\* toLowerCase on the token addresses the model uses
ToLower(a) == CASE a = "0xAB" -> "0xab"
                [] a = "Tok" -> "tok"
                [] OTHER -> a

\* the price map key `${network}:${tokenAddress.toLowerCase()}`
TokenKey(network, address) == <<network, ToLower(address)>>

\* createTriggerOrder: INSERT with status 'active'
NewOrder(p) ==
  [telegramUserId |-> p.telegramUserId, chatId |-> p.chatId,
   network |-> p.network, tokenAddress |-> p.tokenAddress,
   side |-> p.side, triggerType |-> p.triggerType,
   triggerCondition |-> p.triggerCondition, triggerValue |-> p.triggerValue,
   amount |-> p.amount, status |-> "active",
   triggeredAt |-> FALSE, executedAt |-> FALSE,
   txHash |-> None, executionPrice |-> None, error |-> None]

\* ids in ascending order whose order satisfies P (rows ORDER BY created_at ASC)
RECURSIVE IdsFrom(_, _, _)
IdsFrom(ords, i, wanted) ==
  IF i > Len(ords) THEN <<>>
  ELSE IF i \in wanted THEN <<i>> \o IdsFrom(ords, i + 1, wanted)
  ELSE IdsFrom(ords, i + 1, wanted)

\* a mutation of getActiveTriggerOrders: the WHERE clause is dropped
GetAllTriggerOrders(ords) == IdsFrom(ords, 1, DOMAIN ords)

\* getActiveTriggerOrders: WHERE status = 'active'
GetActiveTriggerOrders(ords) ==
  IdsFrom(ords, 1, {i \in DOMAIN ords : ords[i].status = "active"})

\* getTokensWithActiveOrders: SELECT DISTINCT network, token_address of the
\* active rows, listed in order of first appearance
RECURSIVE DistinctTokens(_, _, _)
DistinctTokens(ords, ids, seen) ==
  IF ids = <<>> THEN <<>>
  ELSE LET o == ords[Head(ids)]
           t == <<o.network, o.tokenAddress>>
       IN IF t \in seen THEN DistinctTokens(ords, Tail(ids), seen)
          ELSE <<t>> \o DistinctTokens(ords, Tail(ids), seen \cup {t})

GetTokensWithActiveOrders(ords) ==
  DistinctTokens(ords, IdsFrom(ords, 1, {i \in DOMAIN ords : ords[i].status = "active"}),
                 {})

\* markOrderTriggered: UPDATE ... WHERE id = ?
MarkOrderTriggered(ords, id) ==
  [ords EXCEPT ![id].status = "triggered", ![id].triggeredAt = TRUE]

\* markOrderExecuted: UPDATE ... WHERE id = ?
MarkOrderExecuted(ords, id, txHash, executionPrice) ==
  [ords EXCEPT ![id].status = "executed", ![id].executedAt = TRUE,
               ![id].txHash = Some(txHash),
               ![id].executionPrice = Some(executionPrice)]

\* a mutation of markOrderFailed: the status is left as it was
MarkOrderFailedKeepStatus(ords, id, error) ==
  [ords EXCEPT ![id].error = Some(error)]

\* markOrderFailed: UPDATE ... WHERE id = ?
MarkOrderFailed(ords, id, error) ==
  [ords EXCEPT ![id].status = "failed", ![id].error = Some(error)]

\* a mutation of cancelOrder's WHERE clause: the status test is dropped
CancelOrderMatchesAnyStatus(ords, id, user) ==
  {i \in DOMAIN ords : i = id /\ ords[i].telegramUserId = user}

\* rows matched by cancelOrder's WHERE clause
CancelOrderMatches(ords, id, user) ==
  {i \in DOMAIN ords : i = id /\ ords[i].telegramUserId = user
                        /\ ords[i].status = "active"}

\* rows matched by cancelAllUserOrders' WHERE clause
CancelAllMatches(ords, user) ==
  {i \in DOMAIN ords : ords[i].telegramUserId = user /\ ords[i].status = "active"}

\* UPDATE trigger_orders SET status = 'cancelled' on the matched rows
SetCancelled(ords, ids) ==
  [i \in DOMAIN ords |-> IF i \in ids THEN [ords[i] EXCEPT !.status = "cancelled"]
                         ELSE ords[i]]

----------------------------------------------------------------------------
(* Trigger scheduler (trigger-orders service) *)

IdleLoop ==
  [pc |-> "idle", tokens |-> <<>>, fi |-> 0, priceMap |-> EmptyMap,
   active |-> <<>>, oi |-> 0, price |-> 0]

WalletLockedError == "Wallet locked - please unlock with /unlock"

\* parseFloat on the price strings the provider is modelled to return
ParseFloat(str) == CASE str = "0" -> 0
                     [] str = "1" -> 1
                     [] str = "2" -> 2
                     [] str = "3" -> 3
                     [] OTHER -> 0        \* NaN || 0

\* a fetched TokenInfo as stored in priceMap:
\* parseFloat(priceUsd) || 0 and marketCap || 0
PriceEntry(info) ==
  [price |-> ParseFloat(info.priceUsd),
   marketCap |-> IF info.marketCap = None THEN 0 ELSE info.marketCap[1]]

\* checkTriggerCondition
CheckTriggerCondition(currentValue, targetValue, condition) ==
  IF condition = "above" THEN currentValue >= targetValue
  ELSE currentValue <= targetValue

\* scheduleNextCheck at the end of a cycle run by chain p
ScheduleNextCheck(s, p, mon) ==
  IF mon THEN [s EXCEPT !.loop = [IdleLoop EXCEPT !.pc = "timer"], !.mt = p]
  ELSE [s EXCEPT !.loop = IdleLoop]

RECURSIVE EvalFrom(_, _, _, _, _)

\* notifyOrderExecuted / notifyOrderFailed: return at once without a bot,
\* otherwise await bot.telegram.sendMessage
NotifyOrder(s, p, id, mon, hasBot, t) ==
  IF ~hasBot THEN EvalFrom([s EXCEPT !.loop.oi = @ + 1], p, mon, hasBot, t)
  ELSE [s EXCEPT !.notifyCalls[id] = @ + 1, !.loop.pc = "notify"]

\* the catch block of executeOrder
OrderFailed(s, p, id, errorMsg, mon, hasBot, t) ==
  NotifyOrder([s EXCEPT !.orders = MarkOrderFailed(@, id, errorMsg)],
              p, id, mon, hasBot, t)

\* executeOrder up to its first await
ExecuteOrder(s, p, id, currentPrice, mon, hasBot, t) ==
  LET o == s.orders[id]
      key == GetPrivateKey(s.sessions, o.telegramUserId, o.network, t)
      s1 == [s EXCEPT !.orders = MarkOrderTriggered(@, id),
                      !.markCount[id] = @ + 1,
                      !.sessions = SessionsAfterGet(@, o.telegramUserId, t)]
  IN IF key = None
     THEN OrderFailed(s1, p, id, WalletLockedError, mon, hasBot, t)
     ELSE [s1 EXCEPT !.swapCalls[id] = @ + 1, !.loop.pc = "swap",
                     !.loop.price = currentPrice]

\* the loop over activeOrders in checkPricesAndExecute, from index loop.oi
\* up to the next await or the end of the cycle
EvalFrom(s, p, mon, hasBot, t) ==
  LET l == s.loop IN
  IF l.oi > Len(l.active) THEN ScheduleNextCheck(s, p, mon)
  ELSE
    LET id == l.active[l.oi]
        o == s.orders[id]
        key == TokenKey(o.network, o.tokenAddress)
        next == [s EXCEPT !.loop.oi = @ + 1]
    IN IF key \notin DOMAIN l.priceMap THEN EvalFrom(next, p, mon, hasBot, t)
       ELSE
         LET priceData == l.priceMap[key]
             currentValue == IF o.triggerType = "price" THEN priceData.price
                             ELSE priceData.marketCap
             triggered == CheckTriggerCondition(currentValue, o.triggerValue,
                                                o.triggerCondition)
             logged == IF o.status = "active" THEN s
                       ELSE [s EXCEPT !.staleEvals = @ \cup
                               {[id |-> id, status |-> o.status]}]
         IN IF currentValue = 0 THEN EvalFrom(next, p, mon, hasBot, t)
            ELSE IF triggered
                 THEN ExecuteOrder(logged, p, id, priceData.price, mon, hasBot, t)
                 ELSE EvalFrom([logged EXCEPT !.loop.oi = @ + 1], p, mon, hasBot, t)

\* the scheduler state a step of chain p works on
StepState(p) ==
  [orders |-> orders, sessions |-> sessions, markCount |-> markCount,
   swapCalls |-> swapCalls, notifyCalls |-> notifyCalls, staleEvals |-> staleEvals,
   loop |-> loops[p], mt |-> monitoringTimeout]

\* write the result of a step of chain p back
Commit(s, p) ==
  /\ orders' = s.orders
  /\ sessions' = s.sessions
  /\ markCount' = s.markCount
  /\ swapCalls' = s.swapCalls
  /\ notifyCalls' = s.notifyCalls
  /\ staleEvals' = s.staleEvals
  /\ loops' = [loops EXCEPT ![p] = s.loop]
  /\ monitoringTimeout' = s.mt
  /\ UNCHANGED <<now, userSecurity, whitelist, wallets, loginAttempts, isMonitoring, bot>>

\* the least free timer-chain slot (0 when all are in use)
FreeLoop == IF \E p \in Loops : loops[p].pc = "idle"
            THEN CHOOSE p \in Loops : loops[p].pc = "idle"
                      /\ \A q \in Loops : loops[q].pc = "idle" => p <= q
            ELSE 0

\* initTriggerOrderService
InitTriggerOrderService ==
  /\ ~bot
  /\ bot' = TRUE
  /\ UNCHANGED <<now, userSecurity, whitelist, wallets, loginAttempts, sessions,
                 orders, isMonitoring, monitoringTimeout, loops,
                 swapCalls, notifyCalls, markCount, staleEvals>>

\* startMonitoring (a no-op when already monitoring), with scheduleNextCheck
StartMonitoring ==
  /\ ~isMonitoring
  /\ FreeLoop # 0
  /\ isMonitoring' = TRUE
  /\ loops' = [loops EXCEPT ![FreeLoop] = [IdleLoop EXCEPT !.pc = "timer"]]
  /\ monitoringTimeout' = FreeLoop
  /\ UNCHANGED <<now, userSecurity, whitelist, wallets, loginAttempts, sessions,
                 orders, bot, swapCalls, notifyCalls, markCount, staleEvals>>

\* stopMonitoring: clearTimeout only cancels a timer that has not fired
StopMonitoring ==
  /\ isMonitoring
  /\ isMonitoring' = FALSE
  /\ loops' = IF monitoringTimeout # 0 /\ loops[monitoringTimeout].pc = "timer"
              THEN [loops EXCEPT ![monitoringTimeout] = IdleLoop]
              ELSE loops
  /\ monitoringTimeout' = 0
  /\ UNCHANGED <<now, userSecurity, whitelist, wallets, loginAttempts, sessions,
                 orders, bot, swapCalls, notifyCalls, markCount, staleEvals>>

\* createOrder: insert the row, then start monitoring if it is not running
CreateOrder(params) ==
  /\ Len(orders) < MaxOrders
  /\ isMonitoring \/ FreeLoop # 0
  /\ orders' = Append(orders, NewOrder(params))
  /\ swapCalls' = Append(swapCalls, 0)
  /\ notifyCalls' = Append(notifyCalls, 0)
  /\ markCount' = Append(markCount, 0)
  /\ IF isMonitoring
     THEN UNCHANGED <<isMonitoring, loops, monitoringTimeout>>
     ELSE /\ isMonitoring' = TRUE
          /\ loops' = [loops EXCEPT ![FreeLoop] = [IdleLoop EXCEPT !.pc = "timer"]]
          /\ monitoringTimeout' = FreeLoop
  /\ UNCHANGED <<now, userSecurity, whitelist, wallets, loginAttempts, sessions, bot, staleEvals>>

\* what cancelOrder(orderId, userId) returns: result.changes > 0
CancelOrderResult(ords, id, user) == CancelOrderMatches(ords, id, user) # {}

\* cancelOrder(orderId, userId)
CancelOrder(id, user) ==
  LET hit == CancelOrderMatches(orders, id, user) IN
  /\ orders' = SetCancelled(orders, hit)
  /\ UNCHANGED <<now, userSecurity, whitelist, wallets, loginAttempts, sessions,
                 isMonitoring, monitoringTimeout, bot, loops,
                 swapCalls, notifyCalls, markCount, staleEvals>>

\* cancelAllOrders(userId)
CancelAllOrders(user) ==
  LET hit == CancelAllMatches(orders, user) IN
  /\ orders' = SetCancelled(orders, hit)
  /\ UNCHANGED <<now, userSecurity, whitelist, wallets, loginAttempts, sessions,
                 isMonitoring, monitoringTimeout, bot, loops,
                 swapCalls, notifyCalls, markCount, staleEvals>>

\* the timer of chain p fires: checkPricesAndExecute up to the first fetch
TimerFire(p) ==
  /\ loops[p].pc = "timer"
  /\ LET tokensToCheck == GetTokensWithActiveOrders(orders)
         s == StepState(p)
     IN IF tokensToCheck = <<>>
        THEN Commit(ScheduleNextCheck(s, p, isMonitoring), p)
        ELSE Commit([s EXCEPT !.loop = [IdleLoop EXCEPT !.pc = "fetch",
                                          !.tokens = tokensToCheck, !.fi = 1]], p)

\* a mutation of the fetch loop: a failed fetch ends the poll cycle
AfterFetchAbortOnFailure(p, result) ==
  LET l == loops[p]
      tok == l.tokens[l.fi]
      pm == MapPut(l.priceMap, TokenKey(tok[1], tok[2]), PriceEntry(result[1]))
      s == StepState(p)
  IN IF result = None THEN ScheduleNextCheck(s, p, isMonitoring)
     ELSE IF l.fi < Len(l.tokens)
     THEN [s EXCEPT !.loop.priceMap = pm, !.loop.fi = @ + 1]
     ELSE EvalFrom([s EXCEPT !.loop.priceMap = pm, !.loop.pc = "eval",
                             !.loop.active = GetActiveTriggerOrders(orders),
                             !.loop.oi = 1],
                   p, isMonitoring, bot, now)

\* the scheduler state after getTokenInfo has returned for the token being
\* fetched (and the sleep has elapsed); after the last token the active
\* orders are loaded and evaluated
AfterFetch(p, result) ==
  LET l == loops[p]
      tok == l.tokens[l.fi]
      pm == IF result = None THEN l.priceMap
            ELSE MapPut(l.priceMap, TokenKey(tok[1], tok[2]), PriceEntry(result[1]))
      s == StepState(p)
  IN IF l.fi < Len(l.tokens)
     THEN [s EXCEPT !.loop.priceMap = pm, !.loop.fi = @ + 1]
     ELSE EvalFrom([s EXCEPT !.loop.priceMap = pm, !.loop.pc = "eval",
                             !.loop.active = GetActiveTriggerOrders(orders),
                             !.loop.oi = 1],
                   p, isMonitoring, bot, now)

\* getTokenInfo returns for the token being fetched
FetchReturn(p, result) ==
  /\ loops[p].pc = "fetch"
  /\ Commit(AfterFetch(p, result), p)

\* the swap collaborator returns for the order chain p is executing
SwapReturn(p, result) ==
  /\ loops[p].pc = "swap"
  /\ LET l == loops[p]
         id == l.active[l.oi]
         s == StepState(p)
     IN IF result.success
        THEN Commit(NotifyOrder(
               [s EXCEPT !.orders = MarkOrderExecuted(@, id, result.txHash, l.price)],
               p, id, isMonitoring, bot, now), p)
        ELSE Commit(OrderFailed(s, p, id, result.error, isMonitoring, bot, now), p)

\* sendMessage settles (delivered or rejected: the rejection is only logged)
NotifyReturn(p) ==
  /\ loops[p].pc = "notify"
  /\ Commit(EvalFrom([StepState(p) EXCEPT !.loop.oi = @ + 1],
                     p, isMonitoring, bot, now), p)

----------------------------------------------------------------------------
(* The scheduler specification: order API calls, timer chains, the price  *)
(* provider, the swap collaborator and notifications, with both users set  *)
(* up, holding a wallet on each network, and unlocked at time 0.           *)

PasswordOf(u) == IF u = 1 THEN "abcdef" ELSE "secret2"
SecretOf(u, n) == <<"secret", u, n>>

\* wallets as createEncryptedWallet stores them under the user's password
SetUpWallets ==
  [k \in Users \X Networks |->
     [address |-> AddressOf(SecretOf(k[1], k[2])),
      encryptedPrivateKey |->
        EncryptWithPassword(SecretOf(k[1], k[2]), PasswordOf(k[1]), k[1]),
      encryptionVersion |-> 2]]

\* the sessions after each user of a set has unlocked at time 0
RECURSIVE UnlockedSessions(_)
UnlockedSessions(us) ==
  IF us = {} THEN EmptyMap
  ELSE LET u == CHOOSE x \in us : \A y \in us : y <= x
       IN CacheWalletKeys(CreateSession(UnlockedSessions(us \ {u}), u, 0),
                          SetUpWallets, u, PasswordOf(u), Networks, 0)

NoOrders ==
  /\ orders = <<>>
  /\ isMonitoring = FALSE
  /\ monitoringTimeout = 0
  /\ bot = TRUE
  /\ loops = [p \in Loops |-> IdleLoop]
  /\ swapCalls = <<>>
  /\ notifyCalls = <<>>
  /\ markCount = <<>>
  /\ staleEvals = {}

SchedInit ==
  /\ now = 0
  /\ userSecurity = [u \in Users |-> UserSecurityRow(HashPassword(PasswordOf(u), u))]
  /\ wallets = SetUpWallets
  /\ loginAttempts = [u \in Users |-> <<[time |-> 0, success |-> TRUE]>>]
  /\ sessions = UnlockedSessions(Users)
  /\ whitelist = {}
  /\ NoOrders

\* the orders users place
OrderParams ==
  { [telegramUserId |-> 1, chatId |-> 101, network |-> "solana", tokenAddress |-> "Tok",
     side |-> "buy", triggerType |-> "price", triggerCondition |-> "above",
     triggerValue |-> 2, amount |-> "1"],
    [telegramUserId |-> 2, chatId |-> 102, network |-> "base", tokenAddress |-> "0xAB",
     side |-> "sell", triggerType |-> "marketcap", triggerCondition |-> "below",
     triggerValue |-> 2, amount |-> "50"] }

\* what the price provider answers: a miss or a TokenInfo
FetchResults ==
  { None,
    Some([priceUsd |-> "1", marketCap |-> Some(3)]),
    Some([priceUsd |-> "3", marketCap |-> Some(1)]) }

\* what the swap collaborator answers for the order chain p is executing
SwapResults(p) ==
  LET id == loops[p].active[loops[p].oi] IN
  { [success |-> TRUE, txHash |-> <<"tx", id, swapCalls[id]>>, error |-> ""],
    [success |-> FALSE, txHash |-> <<>>, error |-> "Swap failed"] }

SchedCreateOrder == \E prm \in OrderParams : CreateOrder(prm)
SchedTimerFire == \E p \in Loops : TimerFire(p)
SchedFetchReturn == \E p \in Loops, r \in FetchResults : FetchReturn(p, r)
SchedSwapReturn ==
  \E p \in Loops : loops[p].pc = "swap" /\ \E r \in SwapResults(p) : SwapReturn(p, r)
SchedNotifyReturn == \E p \in Loops : NotifyReturn(p)

SchedNext ==
  \/ StartMonitoring
  \/ StopMonitoring
  \/ SchedCreateOrder
  \/ \E id \in 1..MaxOrders, u \in Users : CancelOrder(id, u)
  \/ \E u \in Users : CancelAllOrders(u)
  \/ SchedTimerFire
  \/ SchedFetchReturn
  \/ SchedSwapReturn
  \/ SchedNotifyReturn
  \/ \E u \in DOMAIN sessions : Lock(u)

SpecSched == SchedInit /\ [][SchedNext]_vars

----------------------------------------------------------------------------
(* The same system when stopMonitoring is never called: startMonitoring is *)
(* a no-op while isMonitoring holds, so there is one timer chain at most.  *)

SingleNext ==
  \/ StartMonitoring
  \/ SchedCreateOrder
  \/ \E id \in 1..MaxOrders, u \in Users : CancelOrder(id, u)
  \/ \E u \in Users : CancelAllOrders(u)
  \/ SchedTimerFire
  \/ SchedFetchReturn
  \/ SchedSwapReturn
  \/ SchedNotifyReturn
  \/ \E u \in DOMAIN sessions : Lock(u)

SpecSingle == SchedInit /\ [][SingleNext]_vars

----------------------------------------------------------------------------
(* Properties of the trigger scheduler *)

\* C1: over all interleavings of concurrent evaluation passes, every order
\* is marked 'triggered' at most once, is handed to the swap collaborator at
\* most once, and has at most one terminal notification sent for it.
C1_AtMostOnceExecution ==
  \A id \in DOMAIN orders :
    /\ markCount[id] <= 1
    /\ swapCalls[id] <= 1
    /\ notifyCalls[id] <= 1

\* C2: a step never changes the status, txHash, executionPrice or error of
\* an order whose status is 'executed', 'failed' or 'cancelled'.
C2_TerminalImmutable ==
  [][\A id \in DOMAIN orders :
       orders[id].status \in {"executed", "failed", "cancelled"} =>
         /\ orders'[id].status = orders[id].status
         /\ orders'[id].txHash = orders[id].txHash
         /\ orders'[id].executionPrice = orders[id].executionPrice
         /\ orders'[id].error = orders[id].error]_vars

\* C3: in every reachable state, cancelOrder(id, user) returns true exactly
\* when the order exists, belongs to user and is 'active', and then changes
\* only that order's status, to 'cancelled'; otherwise it leaves every order
\* unchanged.  cancelAllOrders(user) changes only user's active orders, and
\* sets them to 'cancelled'.
C3_CancelOnlyOwnActive ==
  /\ \A id \in 1..(MaxOrders + 1), u \in Users :
       LET allowed == /\ id \in DOMAIN orders
                      /\ orders[id].telegramUserId = u
                      /\ orders[id].status = "active"
           after == SetCancelled(orders, CancelOrderMatches(orders, id, u))
       IN /\ CancelOrderResult(orders, id, u) = allowed
          /\ after = IF allowed THEN [orders EXCEPT ![id].status = "cancelled"]
                     ELSE orders
  /\ \A u \in Users :
       LET after == SetCancelled(orders, CancelAllMatches(orders, u))
       IN \A i \in DOMAIN orders :
            after[i] = IF orders[i].telegramUserId = u /\ orders[i].status = "active"
                       THEN [orders[i] EXCEPT !.status = "cancelled"]
                       ELSE orders[i]

\* C3 witness: an order has been cancelled while an order of the other user
\* is past 'active', so that a cancel of it would be refused
C3_Witness ==
  \E i, j \in DOMAIN orders :
    /\ orders[i].status = "cancelled"
    /\ orders[j].telegramUserId # orders[i].telegramUserId
    /\ orders[j].status \in {"triggered", "executed", "failed"}

\* C4: with one timer chain, no order is evaluated against a price while its
\* stored status is 'triggered', 'executed' or 'failed', and no order is
\* marked triggered or dispatched to the swap collaborator more than once.
C4_NoReevaluation ==
  /\ \A e \in staleEvals : e.status \notin {"triggered", "executed", "failed"}
  /\ \A id \in DOMAIN orders : markCount[id] <= 1 /\ swapCalls[id] <= 1

\* C4 witness: an order was dispatched and is 'executed' or 'failed', and a
\* later cycle, whose snapshot leaves it out, is executing another order
C4_Witness ==
  \E id \in DOMAIN orders, p \in Loops :
    /\ orders[id].status \in {"executed", "failed"}
    /\ swapCalls[id] = 1
    /\ loops[p].pc \in {"swap", "notify"}
    /\ \A k \in DOMAIN loops[p].active : loops[p].active[k] # id

----------------------------------------------------------------------------
(* The lockout specification: both users have set a password and hold    *)
(* wallets; they unlock with the right or a wrong password and the clock  *)
(* advances in steps of five minutes.  No session expires within MaxTime  *)
(* and no order is ever placed.                                           *)

LockoutInit ==
  /\ now = 0
  /\ userSecurity = [u \in Users |-> UserSecurityRow(HashPassword(PasswordOf(u), u))]
  /\ wallets = SetUpWallets
  /\ loginAttempts = [u \in Users |-> <<>>]
  /\ sessions = EmptyMap
  /\ whitelist = {}
  /\ NoOrders

LockoutPasswords(u) == {PasswordOf(u), "wrong1"}

\* the rows of login_attempts
RECURSIVE AttemptRows(_, _)
AttemptRows(la, us) ==
  IF us = {} THEN 0
  ELSE LET u == CHOOSE x \in us : TRUE IN Len(la[u]) + AttemptRows(la, us \ {u})

LockoutNext ==
  \/ \E u \in Users : \E pw \in LockoutPasswords(u) :
       AttemptRows(loginAttempts, Users) < MaxAttempts /\ Unlock(u, pw)
  \/ now + 5 <= MaxTime /\ Tick(5)

SpecLockout == LockoutInit /\ [][LockoutNext]_vars

----------------------------------------------------------------------------
(* Properties of the lockout *)

\* C6: when the last five attempts of a user are failures no more than 15
\* minutes apart and 15 minutes have not passed since the last of them, an
\* unlock with the correct password is rejected and creates no session.
C6_LockedAfterFiveFailures ==
  \A u \in Users :
    LET rows == loginAttempts[u]
        n == Len(rows)
    IN (/\ n >= 5
        /\ \A i \in (n - 4)..n : ~rows[i].success
        /\ rows[n].time - rows[n - 4].time < 15
        /\ now < rows[n].time + 15)
       => LET out == UnlockOutcome(loginAttempts, userSecurity, wallets, sessions,
                                   u, PasswordOf(u), now)
          IN ~out.success /\ out.sessions = sessions

\* C7: when the most recent failure of a user was the fifth (or later) in
\* the 15 minutes before it, every unlock is rejected as locked out until 15
\* minutes after that failure.
C7_LockedUntilLastFailurePlus15 ==
  \A u \in Users :
    LET rows == loginAttempts[u]
        failed == {i \in DOMAIN rows : ~rows[i].success}
        last == CHOOSE i \in failed : \A j \in failed : rows[j].time <= rows[i].time
    IN (/\ failed # {}
        /\ Cardinality({i \in failed : rows[i].time > rows[last].time - 15}) >= 5
        /\ now < rows[last].time + 15)
       => \A pw \in LockoutPasswords(u) :
            LET out == UnlockOutcome(loginAttempts, userSecurity, wallets, sessions,
                                     u, pw, now)
            IN ~out.success /\ out.error = "Too many failed attempts"

\* C8: only the failures after the user's last successful unlock count: with
\* fewer than five of them in the trailing 15 minutes the user is not locked
\* out, and a wrong password reports 5 minus their number (this one included).
C8_SuccessResetsCounter ==
  \A u \in Users :
    LET rows == loginAttempts[u]
        sinceSuccess == {i \in DOMAIN rows :
                           /\ ~rows[i].success
                           /\ rows[i].time > now - 15
                           /\ \A j \in DOMAIN rows : j > i => ~rows[j].success}
        out == UnlockOutcome(loginAttempts, userSecurity, wallets, sessions,
                             u, "wrong1", now)
    IN Cardinality(sinceSuccess) < 5
       => /\ ~IsLockedOut(loginAttempts, u, now).locked
          /\ out.remaining = 5 - (Cardinality(sinceSuccess) + 1)

\* C9: for a user who is set up and not locked out, an unlock with a wrong
\* password fails, leaves the sessions as they are, adds exactly one failed
\* row, and reports 5 minus the failed rows of the trailing 15 minutes, this
\* one included; when that is 0 it reports the account locked.
C9_WrongPasswordOutcome ==
  \A u \in Users :
    (HasUserSecurity(userSecurity, u) /\ ~IsLockedOut(loginAttempts, u, now).locked)
    => LET out == UnlockOutcome(loginAttempts, userSecurity, wallets, sessions,
                                u, "wrong1", now)
           rows == out.loginAttempts[u]
           failedRecently == {i \in DOMAIN rows :
                                ~rows[i].success /\ rows[i].time > now - 15}
       IN /\ ~out.success
          /\ out.sessions = sessions
          /\ out.loginAttempts =
               [loginAttempts EXCEPT ![u] = Append(@, [time |-> now, success |-> FALSE])]
          /\ out.remaining = 5 - Cardinality(failedRecently)
          /\ out.remaining \in 0..4
          /\ out.error = IF out.remaining > 0 THEN "Incorrect password"
                         ELSE "Account locked for 15 minutes"

\* C9 witness: four wrong passwords in a row have been recorded for a user
\* within 15 minutes, the user is not locked out and has no session
C9_Witness ==
  \E u \in Users :
    /\ Len(loginAttempts[u]) = 4
    /\ \A i \in 1..4 : ~loginAttempts[u][i].success
                       /\ loginAttempts[u][i].time > now - 15
    /\ loginAttempts[u][1].time < loginAttempts[u][4].time
    /\ u \notin DOMAIN sessions

----------------------------------------------------------------------------
(* The custody specification.  User 1 starts with nothing, sets a         *)
(* password, creates, imports, migrates and re-saves wallets, changes the  *)
(* password; user 2 starts set up with one wallet.  Both unlock, lock and  *)
(* read keys; the clock advances in steps of twenty minutes, the sweep     *)
(* runs.  No order is ever placed.                                         *)

CustodyOwner == 1

CustodyInit ==
  /\ now = 0
  /\ userSecurity = CreateUserSecurity(EmptyMap, 2, HashPassword(PasswordOf(2), 2))
  /\ wallets = MapPut(EmptyMap, <<2, "base">>,
                      [address |-> AddressOf(SecretOf(2, "base")),
                       encryptedPrivateKey |->
                         EncryptWithPassword(SecretOf(2, "base"), PasswordOf(2), 2),
                       encryptionVersion |-> 2])
  /\ loginAttempts = [u \in Users |-> <<>>]
  /\ sessions = EmptyMap
  /\ whitelist = {}
  /\ NoOrders

CustodyPasswords == {"abcdef", "secret2"}

CustodySetupPassword ==
  \E pw \in {"abcdef", "short"} : SetupPassword(CustodyOwner, pw)
CustodyLegacyCreateWallet ==
  \E n \in Networks : LegacyCreateWallet(CustodyOwner, n, SecretOf(CustodyOwner, n))
CustodyLegacyImportWallet ==
  \E n \in Networks : LegacyImportWallet(CustodyOwner, n, SecretOf(CustodyOwner, n))
CustodyCreateEncryptedWallet ==
  \E n \in Networks, pw \in CustodyPasswords :
    CreateEncryptedWallet(CustodyOwner, n, AddressOf(SecretOf(CustodyOwner, n)),
                          SecretOf(CustodyOwner, n), pw)
CustodySaveEncryptedWallet ==
  \E n \in Networks, pw \in CustodyPasswords :
    SaveEncryptedWallet(CustodyOwner, n, AddressOf(SecretOf(CustodyOwner, n)),
                        SecretOf(CustodyOwner, n), pw)
CustodyMigrateWallet ==
  \E n \in Networks, pw \in CustodyPasswords : MigrateWallet(CustodyOwner, n, pw)
CustodyMigrateAllWallets ==
  \E pw \in CustodyPasswords : MigrateAllWallets(CustodyOwner, pw)
CustodyUnlock ==
  \E u \in Users, pw \in CustodyPasswords :
    /\ AttemptRows(loginAttempts, Users) < MaxCustodyAttempts
    /\ Unlock(u, pw)
CustodyLock == \E u \in DOMAIN sessions : Lock(u)

CustodyNext ==
  \/ CustodySetupPassword
  \/ CustodyLegacyCreateWallet
  \/ CustodyLegacyImportWallet
  \/ CustodyCreateEncryptedWallet
  \/ CustodySaveEncryptedWallet
  \/ CustodyMigrateWallet
  \/ CustodyMigrateAllWallets
  \/ \E cur \in CustodyPasswords, new \in CustodyPasswords \cup {"short"} :
       /\ AttemptRows(loginAttempts, Users) < MaxCustodyAttempts
       /\ ChangePassword(CustodyOwner, cur, new)
  \/ CustodyUnlock
  \/ CustodyLock
  \/ \E u \in Users, n \in Networks : GetPrivateKeyCall(u, n)
  \/ \E u \in DOMAIN sessions : RefreshSession(u)
  \/ SessionCleanup
  \/ now + 20 <= MaxCustodyTime /\ Tick(20)

SpecCustody == CustodyInit /\ [][CustodyNext]_vars

----------------------------------------------------------------------------
(* Properties of key custody *)

\* C5: in every reachable state getPrivateKey(user, chain) returns a secret
\* only if the user has a session, the clock has not passed its expiresAt and
\* the session stores that chain's key under its own session key; an expired
\* session yields no value whether or not it has been swept; after lock and
\* after a successful changePassword it returns no value.
C5_KeyOnlyFromLiveSession ==
  \A u \in Users, n \in Networks :
    LET k == GetPrivateKey(sessions, u, n, now) IN
    /\ k # None =>
         /\ u \in DOMAIN sessions
         /\ now <= sessions[u].expiresAt
         /\ n \in DOMAIN sessions[u].encryptedKeys
         /\ sessions[u].encryptedKeys[n] = SessionEncrypt(sessions[u].sessionKey, k[1])
    /\ (u \in DOMAIN sessions /\ now > sessions[u].expiresAt) => k = None
    /\ GetPrivateKey(LockSession(sessions, u), u, n, now) = None
    /\ \A cur \in CustodyPasswords, new \in CustodyPasswords :
         LET out == ChangePasswordOutcome(loginAttempts, userSecurity, wallets,
                                          sessions, u, cur, new, now)
         IN out.success => GetPrivateKey(out.sessions, u, n, now) = None

\* C5 witness: a session that stores a key has expired and has not been swept
C5_Witness ==
  \E u \in DOMAIN sessions :
    /\ now > sessions[u].expiresAt
    /\ sessions[u].encryptedKeys # EmptyMap

\* C10: a successful unlock appends one successful attempt, replaces the
\* user's session by a new one (new key, empty but for what it caches, valid
\* for 30 minutes from now), leaves the other sessions alone, and afterwards
\* getPrivateKey returns, per chain, the secret of the user's wallet if it
\* decrypts (server key for a version-1 two-field blob, the password for any
\* other) and no value if it does not or there is no wallet.
C10_UnlockCachesDecryptable ==
  \A u \in Users, pw \in CustodyPasswords :
    LET out == UnlockOutcome(loginAttempts, userSecurity, wallets, sessions, u, pw, now)
        Decrypts(n) ==
          IF <<u, n>> \notin DOMAIN wallets THEN None
          ELSE LET w == wallets[<<u, n>>]
                   blob == w.encryptedPrivateKey
               IN IF w.encryptionVersion = 1 /\ blob.fields = 2
                  THEN IF blob.key = <<"server", WalletEncryptionKey, 0>>
                       THEN Some(blob.data) ELSE None
                  ELSE IF blob.fields = 4 /\ blob.key = <<"password", DeriveKeyFromPassword(pw, u)>>
                       THEN Some(blob.data) ELSE None
    IN out.success =>
         /\ out.loginAttempts =
              [loginAttempts EXCEPT ![u] = Append(@, [time |-> now, success |-> TRUE])]
         /\ u \in DOMAIN out.sessions
         /\ out.sessions[u].unlockedAt = now
         /\ out.sessions[u].expiresAt = now + 30
         /\ u \in DOMAIN sessions => out.sessions[u].sessionKey # sessions[u].sessionKey
         /\ \A v \in DOMAIN sessions \ {u} :
              v \in DOMAIN out.sessions /\ out.sessions[v] = sessions[v]
         /\ \A n \in Networks : GetPrivateKey(out.sessions, u, n, now) = Decrypts(n)
         /\ DOMAIN out.sessions[u].encryptedKeys = {n \in Networks : Decrypts(n) # None}

\* C10 witness: a user unlocked at the current minute holds the key of one
\* wallet in the session, while the other wallet, which does not decrypt
\* under the user's password, is not in it
C10_Witness ==
  \E u \in DOMAIN sessions, n1 \in Networks, n2 \in Networks :
    /\ sessions[u].unlockedAt = now
    /\ loginAttempts[u] # <<>>
    /\ loginAttempts[u][Len(loginAttempts[u])] = [time |-> now, success |-> TRUE]
    /\ DOMAIN sessions[u].encryptedKeys = {n1}
    /\ <<u, n2>> \in DOMAIN wallets
    /\ n2 # n1
    /\ \E pw \in CustodyPasswords :
         /\ VerifyPassword(pw, u, userSecurity[u].passwordHash)
         /\ DecryptPrivateKey(wallets, u, n2, pw) = None

\* C11: after a successful changePassword(user, old, new) every wallet of the
\* user is stored under the new password at encryptionVersion 2, the stored
\* hash verifies the new password and (when they differ) not the old one, the
\* user has no session, and an unlock with the new password that follows
\* makes getPrivateKey return, for every chain, the secret that was
\* recoverable with the old password before the change.
C11_ChangePasswordReencryptsAll ==
  \A u \in Users, old \in CustodyPasswords, new \in CustodyPasswords :
    LET out == ChangePasswordOutcome(loginAttempts, userSecurity, wallets,
                                     sessions, u, old, new, now)
        later == UnlockOutcome(out.loginAttempts, out.userSecurity, out.wallets,
                               out.sessions, u, new, now)
    IN out.success =>
         /\ \A n \in WalletNetworks(wallets, u) :
              /\ out.wallets[<<u, n>>].encryptionVersion = 2
              /\ out.wallets[<<u, n>>].encryptedPrivateKey.fields = 4
              /\ out.wallets[<<u, n>>].encryptedPrivateKey.key = <<"password", DeriveKeyFromPassword(new, u)>>
         /\ VerifyPassword(new, u, out.userSecurity[u].passwordHash)
         /\ old # new => ~VerifyPassword(old, u, out.userSecurity[u].passwordHash)
         /\ u \notin DOMAIN out.sessions
         /\ later.success =>
              \A n \in Networks :
                DecryptPrivateKey(wallets, u, n, old) # None =>
                  GetPrivateKey(later.sessions, u, n, now)
                    = DecryptPrivateKey(wallets, u, n, old)

\* C12: a changePassword that fails because the old password is wrong or the
\* new one has fewer than 6 characters leaves the stored hash, every wallet's
\* ciphertext and encryptionVersion and the user's session as they were; with
\* a correct old password and a too-short new one nothing at all changes.
C12_FailedChangePasswordFrame ==
  \A u \in DOMAIN userSecurity, old \in CustodyPasswords,
     new \in CustodyPasswords \cup {"short"} :
    LET out == ChangePasswordOutcome(loginAttempts, userSecurity, wallets,
                                     sessions, u, old, new, now)
        wrongOld == userSecurity[u].passwordHash # HashPassword(old, u)
        tooShort == Len(new) < 6
    IN (wrongOld \/ tooShort) =>
         /\ ~out.success
         /\ out.userSecurity = userSecurity
         /\ out.wallets = wallets
         /\ out.sessions = sessions
         /\ ~wrongOld => out.loginAttempts = loginAttempts

\* C12 witness: a user with a password, a version-1 and a version-2 wallet and
\* a live session holding keys, for whom a failed attempt was recorded after
\* the session was opened
C12_Witness ==
  \E u \in DOMAIN userSecurity :
    /\ SessionLive(sessions, u, now)
    /\ sessions[u].encryptedKeys # EmptyMap
    /\ \E n1 \in Networks, n2 \in Networks :
         /\ <<u, n1>> \in DOMAIN wallets /\ wallets[<<u, n1>>].encryptionVersion = 1
         /\ <<u, n2>> \in DOMAIN wallets /\ wallets[<<u, n2>>].encryptionVersion = 2
    /\ Len(loginAttempts[u]) >= 2
    /\ loginAttempts[u][Len(loginAttempts[u])].success = FALSE
    /\ loginAttempts[u][Len(loginAttempts[u]) - 1] =
         [time |-> sessions[u].unlockedAt, success |-> TRUE]

\* C13: setupPassword fails and changes nothing when the user already has a
\* user_security row or the password has fewer than 6 characters; otherwise it
\* succeeds, stores a hash that verifies the password (needsPasswordSetup
\* becomes false) and opens no session: the user is locked right after it.
C13_SetupPassword ==
  \A u \in Users, pw \in CustodyPasswords \cup {"short"} :
    LET res == SetupPasswordResult(userSecurity, u, pw)
        after == SetupPasswordStore(userSecurity, u, pw)
    IN /\ (u \in DOMAIN userSecurity \/ Len(pw) < 6) =>
            ~res.success /\ after = userSecurity
       /\ ~(u \in DOMAIN userSecurity \/ Len(pw) < 6) =>
            /\ res.success
            /\ ~NeedsPasswordSetup(after, u)
            /\ VerifyPassword(pw, u, after[u].passwordHash)
            /\ \A v \in DOMAIN userSecurity : after[v] = userSecurity[v]
            /\ ~IsUnlocked(sessions, u, now)

\* C13 witness: the owner has a password hash and has never had a session
C13_Witness ==
  /\ CustodyOwner \in DOMAIN userSecurity
  /\ loginAttempts[CustodyOwner] = <<>>
  /\ CustodyOwner \notin DOMAIN sessions
  /\ WalletNetworks(wallets, CustodyOwner) # {}

\* C14: lock(user) leaves the user without a session (isUnlocked false,
\* getPrivateKey without a value for every chain), a second lock changes
\* nothing more, and lock touches no other user's session, no wallet and no
\* password hash.
C14_LockIdempotent ==
  [][\A u \in Users :
       Lock(u) =>
         /\ u \notin DOMAIN sessions'
         /\ ~IsUnlocked(sessions', u, now')
         /\ \A n \in Networks : GetPrivateKey(sessions', u, n, now') = None
         /\ LockSession(sessions', u) = sessions'
         /\ DOMAIN sessions' = DOMAIN sessions \ {u}
         /\ \A v \in DOMAIN sessions' : sessions'[v] = sessions[v]
         /\ wallets' = wallets
         /\ userSecurity' = userSecurity
         /\ loginAttempts' = loginAttempts]_vars

\* C14 witness: a user whose last successful unlock is less than a session
\* lifetime old has no session, while the other user's session is live
C14_Witness ==
  \E u \in Users, v \in Users :
    /\ u # v
    /\ u \notin DOMAIN sessions
    /\ loginAttempts[u] # <<>>
    /\ loginAttempts[u][Len(loginAttempts[u])].success
    /\ now - loginAttempts[u][Len(loginAttempts[u])].time < SESSION_TIMEOUT_MIN
    /\ SessionLive(sessions, v, now)
    /\ sessions[v].encryptedKeys # EmptyMap

\* C15: for a wallet stored in legacy format, after a successful
\* migrateWallet(user, chain, newPassword) the wallet is a 4-field blob at
\* encryptionVersion 2, and an unlock with newPassword followed by
\* getPrivateKey(user, chain) returns the original secret, whatever
\* newPassword is.
C15_MigrateThenUnlock ==
  \A u \in Users, n \in Networks, newPassword \in CustodyPasswords :
    LET mig == MigrateWalletOutcome(wallets, u, n, newPassword)
        original == DecryptLegacy(wallets[<<u, n>>].encryptedPrivateKey,
                                  WalletEncryptionKey)
        later == UnlockOutcome(loginAttempts, userSecurity, mig.wallets, sessions,
                               u, newPassword, now)
    IN (/\ <<u, n>> \in DOMAIN wallets
        /\ IsLegacyFormat(wallets[<<u, n>>].encryptedPrivateKey)
        /\ mig.success
        /\ ~IsLockedOut(loginAttempts, u, now).locked) =>
         /\ ~IsLegacyFormat(mig.wallets[<<u, n>>].encryptedPrivateKey)
         /\ mig.wallets[<<u, n>>].encryptedPrivateKey.fields = 4
         /\ mig.wallets[<<u, n>>].encryptionVersion = 2
         /\ later.success
         /\ GetPrivateKey(later.sessions, u, n, now) = original

----------------------------------------------------------------------------
(* The migration specification.  The owner sets a password, creates,      *)
(* imports, migrates and re-saves wallets and changes the password, and    *)
(* migrateWallet and changePassword may stop part-way; both users unlock   *)
(* and lock.  The clock stands still and no order is ever placed.          *)

MigrationNext ==
  \/ CustodySetupPassword
  \/ CustodyLegacyCreateWallet
  \/ CustodyLegacyImportWallet
  \/ CustodyCreateEncryptedWallet
  \/ CustodySaveEncryptedWallet
  \/ CustodyMigrateWallet
  \/ CustodyMigrateAllWallets
  \/ \E n \in Networks, pw \in CustodyPasswords, restart \in BOOLEAN :
       MigrateWalletInterrupted(CustodyOwner, n, pw, restart)
  \/ \E cur \in CustodyPasswords, new \in CustodyPasswords \cup {"short"} :
       /\ AttemptRows(loginAttempts, Users) < MaxMigrationAttempts
       /\ ChangePassword(CustodyOwner, cur, new)
  \/ \E cur \in CustodyPasswords, new \in CustodyPasswords,
        done \in SUBSET Networks, half \in SUBSET Networks, restart \in BOOLEAN :
       ChangePasswordInterrupted(CustodyOwner, cur, new, done, half, restart)
  \/ \E u \in Users, pw \in CustodyPasswords :
       /\ AttemptRows(loginAttempts, Users) < MaxMigrationAttempts
       /\ Unlock(u, pw)
  \/ CustodyLock

SpecMigration == CustodyInit /\ [][MigrationNext]_vars

----------------------------------------------------------------------------
(* Properties of migration and re-encryption *)

\* C16: migrateWallet refuses a missing wallet, a wallet whose
\* encryptionVersion is 2 or more and a wallet that the legacy key does not
\* decrypt, and a refusal leaves the wallets as they were; migrateAllWallets
\* reports success only if every wallet of the user migrated, and every
\* wallet of the user is in exactly one of migrated and failed.
C16_MigrateRefusals ==
  \A u \in Users, newPassword \in CustodyPasswords :
    /\ \A n \in Networks :
         LET mig == MigrateWalletOutcome(wallets, u, n, newPassword)
             blob == wallets[<<u, n>>].encryptedPrivateKey
             refused == \/ <<u, n>> \notin DOMAIN wallets
                        \/ wallets[<<u, n>>].encryptionVersion >= 2
                        \/ blob.fields # 2
                        \/ blob.key # <<"server", WalletEncryptionKey, 0>>
         IN refused => ~mig.success /\ mig.wallets = wallets
    /\ LET all == MigrateAllWalletsOutcome(wallets, u, newPassword)
           Migrated(n) ==
             /\ MigrateWalletOutcome(wallets, u, n, newPassword).success
             /\ all.wallets[<<u, n>>].encryptionVersion = 2
             /\ all.wallets[<<u, n>>].encryptedPrivateKey =
                  EncryptWithPassword(wallets[<<u, n>>].encryptedPrivateKey.data,
                                      newPassword, u)
       IN /\ all.success => \A n \in WalletNetworks(wallets, u) : Migrated(n)
          /\ all.migrated \cup all.failed = WalletNetworks(wallets, u)
          /\ all.migrated \cap all.failed = {}
          /\ \A n \in all.migrated : Migrated(n)
          /\ \A n \in all.failed : all.wallets[<<u, n>>] = wallets[<<u, n>>]

\* C16 witness: the owner holds a version-1 wallet that the legacy key does
\* not decrypt, left by a migration that stopped before the version was
\* set, next to a wallet that can be migrated
C16_Witness ==
  \E n1 \in Networks, n2 \in Networks :
    /\ <<CustodyOwner, n1>> \in DOMAIN wallets
    /\ wallets[<<CustodyOwner, n1>>].encryptionVersion = 1
    /\ wallets[<<CustodyOwner, n1>>].encryptedPrivateKey.fields = 4
    /\ <<CustodyOwner, n2>> \in DOMAIN wallets
    /\ MigrateWalletOutcome(wallets, CustodyOwner, n2, "abcdef").success
    /\ ~MigrateAllWalletsOutcome(wallets, CustodyOwner, "abcdef").success

\* C17: changePassword and migrateWallet, whether they run to their end or
\* stop part-way, overwrite a wallet's ciphertext only with the encryption
\* under the new password of the secret that the old ciphertext decrypted
\* to; they add and remove no wallet, and every stored ciphertext is a
\* two-field server-key blob or a four-field password blob of the same
\* secret as before, never the secret itself.
C17_OverwriteOnlyAfterDecrypt ==
  /\ [](\A k \in DOMAIN wallets :
          /\ wallets[k].encryptedPrivateKey.fields \in {2, 4}
          /\ wallets[k].encryptedPrivateKey.key[1] \in {"server", "password"})
  /\ [][wallets' # wallets =>
          \A u \in Users :
            LET Rewritten(n) == /\ <<u, n>> \in DOMAIN wallets
                                /\ wallets'[<<u, n>>].encryptedPrivateKey
                                     # wallets[<<u, n>>].encryptedPrivateKey
                Kept == /\ DOMAIN wallets' = DOMAIN wallets
                        /\ \A k \in DOMAIN wallets :
                             /\ wallets'[k].address = wallets[k].address
                             /\ wallets'[k].encryptedPrivateKey.data
                                  = wallets[k].encryptedPrivateKey.data
            IN /\ \A old \in CustodyPasswords, new \in CustodyPasswords \cup {"short"} :
                    (/\ HasUserSecurity(userSecurity, u)
                     /\ VerifyPassword(old, u, userSecurity[u].passwordHash)
                     /\ \/ ChangePassword(u, old, new)
                        \/ \E done \in SUBSET Networks, half \in SUBSET Networks,
                              restart \in BOOLEAN :
                             ChangePasswordInterrupted(u, old, new, done, half, restart)) =>
                      /\ Kept
                      /\ \A n \in Networks : Rewritten(n) =>
                           /\ DecryptPrivateKey(wallets, u, n, old) # None
                           /\ wallets'[<<u, n>>].encryptedPrivateKey =
                                EncryptWithPassword(
                                  DecryptPrivateKey(wallets, u, n, old)[1], new, u)
               /\ \A new \in CustodyPasswords :
                    (\/ MigrateAllWallets(u, new)
                     \/ \E m \in Networks :
                          \/ MigrateWallet(u, m, new)
                          \/ \E restart \in BOOLEAN :
                               MigrateWalletInterrupted(u, m, new, restart)) =>
                      /\ Kept
                      /\ \A n \in Networks : Rewritten(n) =>
                           /\ DecryptLegacy(wallets[<<u, n>>].encryptedPrivateKey,
                                            WalletEncryptionKey) # None
                           /\ wallets'[<<u, n>>].encryptedPrivateKey =
                                EncryptWithPassword(
                                  DecryptLegacy(wallets[<<u, n>>].encryptedPrivateKey,
                                                WalletEncryptionKey)[1], new, u)]_vars

\* C17 witness: a changePassword that stopped inside its loop has left one
\* wallet of the owner under a password that the stored hash does not
\* verify, its version still 1, and the other wallet in the legacy format
C17_Witness ==
  \E n1 \in Networks, n2 \in Networks, pw \in CustodyPasswords :
    /\ CustodyOwner \in DOMAIN userSecurity
    /\ ~VerifyPassword(pw, CustodyOwner, userSecurity[CustodyOwner].passwordHash)
    /\ <<CustodyOwner, n1>> \in DOMAIN wallets
    /\ wallets[<<CustodyOwner, n1>>].encryptionVersion = 1
    /\ wallets[<<CustodyOwner, n1>>].encryptedPrivateKey =
         EncryptWithPassword(SecretOf(CustodyOwner, n1), pw, CustodyOwner)
    /\ <<CustodyOwner, n2>> \in DOMAIN wallets
    /\ IsLegacyFormat(wallets[<<CustodyOwner, n2>>].encryptedPrivateKey)

----------------------------------------------------------------------------
(* The withdrawal specification.  Both users are set up with wallets and   *)
(* locked; they set transfer limits, whitelist and un-whitelist addresses,  *)
(* unlock and lock, and the clock advances in steps of twenty minutes.      *)

WithdrawAddresses(n) == IF n = "solana" THEN {"SoLaddr"} ELSE {"0xAB", "0xab"}
LimitInputs == {-1, 0, 5}

WithdrawNext ==
  \/ \E sol \in LimitInputs, eth \in LimitInputs : HandleLimitsSetup(CustodyOwner, sol, eth)
  \/ \E n \in Networks : \E a \in WithdrawAddresses(n) : AddToWhitelist(CustodyOwner, n, a)
  \/ \E n \in Networks : \E a \in WithdrawAddresses(n) : RemoveFromWhitelist(CustodyOwner, n, a)
  \/ CustodyUnlock
  \/ CustodyLock
  \/ now + 20 <= MaxCustodyTime /\ Tick(20)

SpecWithdraw == LockoutInit /\ [][WithdrawNext]_vars

\* C18: requiresPasswordForWithdraw(user, chain, address, amount) is true
\* exactly when the user has no active session, or the address is not
\* whitelisted for (user, chain) and the amount is strictly greater than the
\* transfer limit stored for the user and that chain, whatever that limit
\* is, 0 included.
C18_RequiresPasswordForWithdraw ==
  \A u \in Users, n \in Networks, amount \in 0..MaxAmount :
    \A a \in WithdrawAddresses(n) :
      LET limit == IF n = "solana" THEN userSecurity[u].transferLimitSol
                   ELSE userSecurity[u].transferLimitEth
      IN RequiresPasswordForWithdraw(userSecurity, whitelist, sessions,
                                     u, n, a, amount, now)
         <=> \/ ~SessionLive(sessions, u, now)
             \/ /\ ~IsAddressWhitelisted(whitelist, u, n, a)
                /\ amount > limit

----------------------------------------------------------------------------
(* The trigger specification: one timer chain, no cancellation, and a      *)
(* price provider that also reports values equal to the target and zero.   *)

TriggerFetchResults ==
  FetchResults \cup
    { Some([priceUsd |-> "2", marketCap |-> Some(2)]),
      Some([priceUsd |-> "0", marketCap |-> Some(0)]),
      Some([priceUsd |-> "1", marketCap |-> None]) }

TriggerNext ==
  \/ SchedCreateOrder
  \/ SchedTimerFire
  \/ \E p \in Loops, r \in TriggerFetchResults : FetchReturn(p, r)
  \/ SchedSwapReturn
  \/ SchedNotifyReturn

SpecTrigger == SchedInit /\ [][TriggerNext]_vars

\* C19: in a poll cycle the active orders whose token was fetched
\* successfully are handed to execution exactly when their trigger holds on
\* the fetched price or market cap (the one triggerType selects): 'above'
\* when value >= triggerValue, 'below' when value <= triggerValue, for every
\* value, 0 and the target itself included.  The cycle goes through the
\* orders in turn, so each stretch of it hands over the first order that is
\* due and none when no order is due.
C19_DispatchIffTriggerHolds ==
  \A p \in Loops :
    LET l == loops[p]
        Holds(o, pm) ==
          LET d == pm[TokenKey(o.network, o.tokenAddress)]
              value == IF o.triggerType = "price" THEN d.price ELSE d.marketCap
          IN IF o.triggerCondition = "above" THEN value >= o.triggerValue
             ELSE value <= o.triggerValue
        Due(active, pm, j) ==
          /\ TokenKey(orders[active[j]].network, orders[active[j]].tokenAddress)
               \in DOMAIN pm
          /\ Holds(orders[active[j]], pm)
        Follows(post, active, pm, start) ==
          LET due == {j \in start..Len(active) : Due(active, pm, j)}
          IN IF due = {}
             THEN post.markCount = markCount /\ post.loop.pc \in {"timer", "idle"}
             ELSE LET j == CHOOSE x \in due : \A y \in due : x <= y
                  IN /\ post.markCount = [markCount EXCEPT ![active[j]] = @ + 1]
                     /\ post.loop.pc \in {"swap", "notify"}
                     /\ post.loop.oi = j
    IN /\ (l.pc = "fetch" /\ l.fi = Len(l.tokens)) =>
            \A r \in TriggerFetchResults :
              LET tok == l.tokens[l.fi]
                  pm == IF r = None THEN l.priceMap
                        ELSE MapPut(l.priceMap, TokenKey(tok[1], tok[2]),
                                    PriceEntry(r[1]))
              IN Follows(AfterFetch(p, r), GetActiveTriggerOrders(orders), pm, 1)
       /\ l.pc = "notify" =>
            Follows(EvalFrom([StepState(p) EXCEPT !.loop.oi = @ + 1],
                             p, isMonitoring, bot, now),
                    l.active, l.priceMap, l.oi + 1)

\* C20: a failed price fetch does not end the poll cycle: when the fetch of
\* some token of the cycle has failed, the orders on the tokens that were
\* fetched are evaluated all the same (the first whose trigger holds is
\* handed to execution), and no step of a cycle changes an order whose token
\* has no entry in the cycle's price map: it keeps status 'active', and no
\* error, txHash or timestamp is written.
C20_FailedFetchDoesNotAbort ==
  /\ [](\A p \in Loops :
          LET l == loops[p] IN
          (l.pc = "fetch" /\ l.fi = Len(l.tokens)) =>
            \A r \in FetchResults :
              LET tok == l.tokens[l.fi]
                  pm == IF r = None THEN l.priceMap
                        ELSE MapPut(l.priceMap, TokenKey(tok[1], tok[2]),
                                    PriceEntry(r[1]))
                  missed == {i \in 1..Len(l.tokens) :
                               TokenKey(l.tokens[i][1], l.tokens[i][2]) \notin DOMAIN pm}
                  active == GetActiveTriggerOrders(orders)
                  Fetched(j) == TokenKey(orders[active[j]].network,
                                         orders[active[j]].tokenAddress) \in DOMAIN pm
                  Value(j) == LET d == pm[TokenKey(orders[active[j]].network,
                                                   orders[active[j]].tokenAddress)]
                              IN IF orders[active[j]].triggerType = "price"
                                 THEN d.price ELSE d.marketCap
                  due == {j \in 1..Len(active) :
                            Fetched(j) /\ CheckTriggerCondition(
                                            Value(j), orders[active[j]].triggerValue,
                                            orders[active[j]].triggerCondition)}
                  post == AfterFetch(p, r)
              IN missed # {} =>
                   /\ due # {} =>
                        /\ post.loop.pc \in {"swap", "notify"}
                        /\ post.loop.oi = CHOOSE x \in due : \A y \in due : x <= y
                        /\ post.orders[active[post.loop.oi]].status # "active"
                   /\ \A j \in 1..Len(active) :
                        ~Fetched(j) => post.orders[active[j]] = orders[active[j]])
  /\ [][\A p \in Loops :
          (loops[p].pc \in {"fetch", "swap", "notify"} /\ loops'[p] # loops[p]) =>
            \A id \in DOMAIN orders :
              LET pm == IF loops[p].pc = "fetch" THEN loops'[p].priceMap
                        ELSE loops[p].priceMap
              IN TokenKey(orders[id].network, orders[id].tokenAddress) \notin DOMAIN pm
                   => orders'[id] = orders[id]]_vars

\* C20 witness: in a cycle over two tokens the fetch of one has failed, an
\* order on the other token has been handed to execution, and the order on
\* the token without a price is active and untouched
C20_Witness ==
  \E p \in Loops, id \in DOMAIN orders :
    /\ loops[p].pc \in {"swap", "notify"}
    /\ Len(loops[p].tokens) = 2
    /\ Cardinality(DOMAIN loops[p].priceMap) = 1
    /\ TokenKey(orders[id].network, orders[id].tokenAddress)
         \notin DOMAIN loops[p].priceMap
    /\ id \in {loops[p].active[j] : j \in 1..Len(loops[p].active)}
    /\ orders[id].status = "active"
    /\ orders[id].error = None
    /\ orders[loops[p].active[loops[p].oi]].status # "active"

----------------------------------------------------------------------------------------------------------------------------------------------------
(* The trigger-orders service from process start: the bot reference is not *)
(* set until initTriggerOrderService runs, orders may be created before    *)
(* that, and a user who locked may unlock again with their password.       *)

\* unlock calls made after the initial ones
MaxRelocks == 1

ServiceInit ==
  /\ now = 0
  /\ userSecurity = [u \in Users |-> UserSecurityRow(HashPassword(PasswordOf(u), u))]
  /\ wallets = SetUpWallets
  /\ loginAttempts = [u \in Users |-> <<[time |-> 0, success |-> TRUE]>>]
  /\ sessions = UnlockedSessions(Users)
  /\ whitelist = {}
  /\ orders = <<>>
  /\ isMonitoring = FALSE
  /\ monitoringTimeout = 0
  /\ bot = FALSE
  /\ loops = [p \in Loops |-> IdleLoop]
  /\ swapCalls = <<>>
  /\ notifyCalls = <<>>
  /\ markCount = <<>>
  /\ staleEvals = {}

ServiceNext ==
  \/ SchedNext
  \/ InitTriggerOrderService
  \/ \E u \in Users :
       /\ AttemptRows(loginAttempts, Users) < Cardinality(Users) + MaxRelocks
       /\ Unlock(u, PasswordOf(u))

SpecService == ServiceInit /\ [][ServiceNext]_vars

\* C21: when a matched order is executed while its owner's wallet is locked,
\* the step that gives it the wallet-locked error invokes no swap for it and
\* leaves it 'failed'; from then on the order keeps its status and error and
\* is neither marked triggered nor handed to the swap collaborator again,
\* also after the owner has unlocked.
C21_LockedOrderFailsForGood ==
  [][\A id \in DOMAIN orders :
       /\ (orders[id].error # Some(WalletLockedError) /\ orders'[id].error = Some(WalletLockedError))
            => /\ orders'[id].status = "failed"
               /\ swapCalls'[id] = swapCalls[id]
       /\ (orders[id].error = Some(WalletLockedError) /\ orders[id].status = "failed")
            => /\ orders'[id].status = "failed"
               /\ orders'[id].error = Some(WalletLockedError)
               /\ swapCalls'[id] = swapCalls[id]
               /\ markCount'[id] = markCount[id]]_vars

\* C22: an order becomes 'executed' only in the step in which the swap
\* collaborator reports success for it, and then carries that swap's
\* transaction reference and, as executionPrice, the USD price its poll
\* cycle fetched for the token (for market-cap triggers too); an order in
\* 'executed' has a txHash and an executionPrice, and an order in 'failed'
\* has an error message and no txHash.
C22_ExecutedOnlyOnSwapSuccess ==
  /\ [](\A id \in DOMAIN orders :
          /\ orders[id].status = "executed"
               => orders[id].txHash # None /\ orders[id].executionPrice # None
          /\ orders[id].status = "failed"
               => orders[id].error # None /\ orders[id].txHash = None)
  /\ [][\A id \in DOMAIN orders :
          (orders'[id].status = "executed" /\ orders'[id] # orders[id])
            => \E p \in Loops :
                 /\ loops[p].pc = "swap"
                 /\ loops[p].active[loops[p].oi] = id
                 /\ TokenKey(orders[id].network, orders[id].tokenAddress)
                      \in DOMAIN loops[p].priceMap
                 /\ orders'[id].executionPrice =
                      Some(loops[p].priceMap[TokenKey(orders[id].network,
                                                      orders[id].tokenAddress)].price)
                 /\ \E r \in SwapResults(p) :
                      r.success /\ orders'[id].txHash = Some(r.txHash)]_vars

\* C23: every order whose status is 'executed' or 'failed' has had exactly
\* one notification sent to its chat, and no order has ever had two, also
\* when createOrder started monitoring before initTriggerOrderService ran.
C23_ExactlyOneNotification ==
  \A id \in DOMAIN orders :
    /\ notifyCalls[id] <= 1
    /\ orders[id].status \in {"executed", "failed"} => notifyCalls[id] = 1

----------------------------------------------------------------------------
(* The session map at capacity: the two users of the model share the map   *)
(* with the sessions of MAX_SESSIONS - 2 other users, who unlocked five    *)
(* minutes before the start and do nothing afterwards.                     *)

EvictionInit ==
  /\ now = 5
  /\ userSecurity = [u \in Users |-> UserSecurityRow(HashPassword(PasswordOf(u), u))]
  /\ wallets = SetUpWallets
  /\ loginAttempts = [u \in Users |-> <<>>]
  /\ sessions = [u \in 3..MAX_SESSIONS |->
                   [unlockedAt |-> 0, expiresAt |-> SESSION_TIMEOUT_MIN,
                    encryptedKeys |-> EmptyMap, sessionKey |-> u]]
  /\ whitelist = {}
  /\ NoOrders

EvictionNext ==
  \/ \E u \in Users : \E pw \in LockoutPasswords(u) :
       /\ AttemptRows(loginAttempts, Users) < MaxCustodyAttempts + 1
       /\ Unlock(u, pw)
  \/ \E u \in Users : Lock(u)
  \/ \E u \in Users :
       /\ AttemptRows(loginAttempts, Users) < MaxCustodyAttempts + 1
       /\ \E cur \in LockoutPasswords(u) : ChangePassword(u, cur, PasswordOf(u))
  \/ \E u \in Users, n \in Networks : GetPrivateKeyCall(u, n)
  \/ SessionCleanup
  \/ (now + 20 <= MaxCustodyTime + 5 /\ Tick(20))

SpecEviction == EvictionInit /\ [][EvictionNext]_vars

\* C24: a step gives a user a new session only if it is a successful unlock
\* of that user, and a step removes a user's session only if it is that
\* user's lock, that user's successful password change, or the session had
\* expired; no step taken by or for another user removes a live session.
C24_SessionLifecycle ==
  [][\A u \in DOMAIN sessions \cup DOMAIN sessions' :
       /\ (u \in DOMAIN sessions'
           /\ (u \notin DOMAIN sessions \/ sessions'[u].sessionKey # sessions[u].sessionKey))
            => \E pw \in LockoutPasswords(u) :
                 /\ UnlockOutcome(loginAttempts, userSecurity, wallets, sessions,
                                  u, pw, now).success
                 /\ Unlock(u, pw)
       /\ (u \in DOMAIN sessions /\ u \notin DOMAIN sessions')
            => \/ sessions[u].expiresAt < now
               \/ Lock(u)
               \/ \E cur \in LockoutPasswords(u) :
                    /\ ChangePasswordOutcome(loginAttempts, userSecurity, wallets,
                                             sessions, u, cur, PasswordOf(u), now).success
                    /\ ChangePassword(u, cur, PasswordOf(u))]_vars

----------------------------------------------------------------------------
(* The password cipher on its own: both users have set up a password drawn *)
(* from CipherPasswords and hold one wallet each, encrypted under it; they *)
(* unlock, lock and change password with passwords from the same set.      *)

\* passwords that differ in a suffix, one of them ending like ":<user id>"
CipherPasswords == {"abcdef", "abcdef:1", "abcdef:2", "abcdef1"}

CipherInit ==
  \E p1 \in CipherPasswords, p2 \in CipherPasswords, n1 \in Networks, n2 \in Networks :
    LET pwd == <<p1, p2>>
        net == <<n1, n2>>
    IN /\ now = 0
       /\ userSecurity = [u \in Users |-> UserSecurityRow(HashPassword(pwd[u], u))]
       /\ wallets = [k \in {<<u, net[u]>> : u \in Users} |->
                       [address |-> AddressOf(SecretOf(k[1], k[2])),
                        encryptedPrivateKey |->
                          EncryptWithPassword(SecretOf(k[1], k[2]), pwd[k[1]], k[1]),
                        encryptionVersion |-> 2]]
       /\ loginAttempts = [u \in Users |-> <<>>]
       /\ sessions = EmptyMap
       /\ whitelist = {}
       /\ NoOrders

CipherNext ==
  \/ \E u \in Users, pw \in CipherPasswords :
       /\ AttemptRows(loginAttempts, Users) < MaxCustodyAttempts
       /\ Unlock(u, pw)
  \/ \E u \in Users, cur \in CipherPasswords, new \in CipherPasswords :
       /\ AttemptRows(loginAttempts, Users) < MaxCustodyAttempts
       /\ ChangePassword(u, cur, new)
  \/ \E u \in Users : Lock(u)

SpecCipher == CipherInit /\ [][CipherNext]_vars

C28_TriggeredIsCompareAndSet ==
  [][\A id \in DOMAIN orders :
       (markCount'[id] > markCount[id] /\ orders[id].status # "active")
         => /\ orders'[id] = orders[id]
            /\ swapCalls'[id] = swapCalls[id]]_vars

\* C29: the scheduler is a single logical loop: over all interleavings of
\* startMonitoring, stopMonitoring and createOrder with timer firings and
\* poll cycles in flight, at most one timer chain has a cycle scheduled or
\* running, and a step schedules or starts a cycle on a chain only when no
\* other chain has one scheduled or running.
C29_SingleSchedulerLoop ==
  /\ [](Cardinality({p \in Loops : loops[p].pc # "idle"}) <= 1)
  /\ [][\A p \in Loops :
          (loops[p].pc = "idle" /\ loops'[p].pc # "idle")
            => \A q \in Loops \ {p} : loops[q].pc = "idle"]_vars

\* C30: once cancelOrder has returned true for an order, the order stays
\* 'cancelled' and the swap collaborator is not invoked for it, also when
\* the cancel came while a poll cycle that had already loaded the order was
\* awaiting a price fetch or another order's execution.
C30_CancelledStaysCancelled ==
  [][\A id \in DOMAIN orders :
       orders[id].status = "cancelled"
         => /\ orders'[id].status = "cancelled"
            /\ swapCalls'[id] = swapCalls[id]]_vars

----------------------------------------------------------------------------
(* The scheduler with the progress its awaits are assumed to make: a timer  *)
(* that is set fires, and a price fetch and a swap that were started return *)
(* (or time out, which the caller sees as a failure result). Nothing is     *)
(* assumed about sendMessage.                                               *)

SpecLive ==
  /\ SpecSched
  /\ \A p \in Loops :
       /\ WF_vars(TimerFire(p))
       /\ WF_vars(\E r \in FetchResults : FetchReturn(p, r))
       /\ WF_vars(loops[p].pc = "swap" /\ \E r \in SwapResults(p) : SwapReturn(p, r))

\* C31: every order that is marked 'triggered' eventually reaches 'executed'
\* or 'failed', given that each swap call eventually returns or times out.
C31_TriggeredReachesTerminal ==
  \A id \in 1..MaxOrders :
    [](id \in DOMAIN orders /\ orders[id].status = "triggered"
         => <>(id \in DOMAIN orders /\ orders[id].status \in {"executed", "failed"}))

\* an order was triggered and executed, another was triggered and failed
C31_Witness ==
  \E i, j \in DOMAIN orders :
    /\ markCount[i] >= 1 /\ orders[i].status = "executed"
    /\ markCount[j] >= 1 /\ orders[j].status = "failed"

\* C33: notification is fire-and-forget: when sendMessage settles for an
\* order, delivered or rejected, the order keeps the terminal status that
\* was recorded for it; and a notification that never completes does
\* not hold the scheduler back: the chain that issued it goes on to the
\* remaining orders of the cycle and to the next timer.
C33_NotifyFireAndForget ==
  /\ [][\A p \in Loops :
          loops[p].pc = "notify" =>
            LET id == loops[p].active[loops[p].oi]
            IN loops'[p] # loops[p] => orders'[id].status = orders[id].status]_vars
  /\ \A p \in Loops : [](loops[p].pc = "notify" => <>(loops[p].pc # "notify"))

----------------------------------------------------------------------------
(* The trigger specification with the progress of its awaits: the timer    *)
(* fires, and the price fetch, the swap and sendMessage settle.            *)

SpecTriggerLive ==
  /\ SpecTrigger
  /\ \A p \in Loops :
       /\ WF_vars(TimerFire(p))
       /\ WF_vars(\E r \in TriggerFetchResults : FetchReturn(p, r))
       /\ WF_vars(loops[p].pc = "swap" /\ \E r \in SwapResults(p) : SwapReturn(p, r))
       /\ WF_vars(NotifyReturn(p))

\* C32: while monitoring runs and an order stays 'active', every poll cycle
\* that starts lists the order's token for fetching, whatever earlier
\* fetches returned, and the token is fetched again and again; an active
\* order of the cycle's list whose trigger holds on the value the cycle
\* obtained is triggered in that cycle (unless the cycle is still awaiting an
\* earlier order of the list); and a timer is set again after every cycle.
C32_RetriedEveryCycle ==
  /\ [][\A p \in Loops :
          (loops[p].pc = "timer" /\ loops'[p].pc = "fetch") =>
            \A id \in DOMAIN orders :
              orders[id].status = "active" =>
                \E k \in 1..Len(loops'[p].tokens) :
                  loops'[p].tokens[k] = <<orders[id].network, orders[id].tokenAddress>>]_vars
  /\ \A id \in 1..MaxOrders :
       []<>(\/ ~(id \in DOMAIN orders /\ orders[id].status = "active")
            \/ \E p \in Loops :
                 /\ loops[p].pc = "fetch"
                 /\ loops[p].tokens[loops[p].fi]
                      = <<orders[id].network, orders[id].tokenAddress>>)
  /\ [](\A p \in Loops :
          LET l == loops[p]
              Due(id, pm) ==
                /\ orders[id].status = "active"
                /\ TokenKey(orders[id].network, orders[id].tokenAddress) \in DOMAIN pm
                /\ LET d == pm[TokenKey(orders[id].network, orders[id].tokenAddress)]
                       value == IF orders[id].triggerType = "price" THEN d.price
                                ELSE d.marketCap
                   IN CheckTriggerCondition(value, orders[id].triggerValue,
                                            orders[id].triggerCondition)
              Served(post, active, pm, start) ==
                \A j \in start..Len(active) :
                  Due(active[j], pm) =>
                    \/ post.markCount[active[j]] > markCount[active[j]]
                    \/ post.loop.pc \in {"swap", "notify"} /\ post.loop.oi < j
          IN /\ (l.pc = "fetch" /\ l.fi = Len(l.tokens)) =>
                  \A r \in TriggerFetchResults :
                    LET tok == l.tokens[l.fi]
                        pm == IF r = None THEN l.priceMap
                              ELSE MapPut(l.priceMap, TokenKey(tok[1], tok[2]),
                                          PriceEntry(r[1]))
                    IN Served(AfterFetch(p, r), GetActiveTriggerOrders(orders), pm, 1)
             /\ l.pc = "notify" =>
                  Served(EvalFrom([StepState(p) EXCEPT !.loop.oi = @ + 1],
                                  p, isMonitoring, bot, now),
                         l.active, l.priceMap, l.oi + 1))
  /\ []<>(~isMonitoring \/ \E p \in Loops : loops[p].pc = "timer")

\* C34: every authentication error returned by unlock, for a wrong password
\* and for a locked-out user alike, is recorded as a failed login attempt:
\* whenever unlock would fail for a user who has a password, the table it
\* leaves is the one recordLoginAttempt(user, false) leaves.
C34_AuthErrorsRecorded ==
  \A u \in Users : \A pw \in LockoutPasswords(u) :
    LET out == UnlockOutcome(loginAttempts, userSecurity, wallets, sessions,
                             u, pw, now)
    IN (HasUserSecurity(userSecurity, u) /\ ~out.success) =>
         out.loginAttempts = RecordLoginAttempt(loginAttempts, u, FALSE, now)

----------------------------------------------------------------------------
(* Decryption of stored ciphertexts of every shape.  User 1's solana wallet *)
(* row holds a ciphertext with 2 to 5 fields, written under the server key  *)
(* or another key or under a password, at encryptionVersion 1 or 2; user 2  *)
(* has a session whose cached entry has 2 to 4 fields under the session's   *)
(* key or another.  The users unlock, lock, migrate and change password.    *)

StoredBlobs(u, n) ==
  {[fields |-> 2, key |-> <<"server", k, 0>>, data |-> SecretOf(u, n), pad |-> pd] :
     k \in {WalletEncryptionKey, "otherkey"}, pd \in BOOLEAN}
  \cup {[fields |-> f, key |-> <<"password", DeriveKeyFromPassword(pw, u)>>,
         data |-> SecretOf(u, n)] : f \in {3, 4, 5}, pw \in CustodyPasswords}

BlobsInit ==
  \E b \in StoredBlobs(1, "solana"), v \in {1, 2}, f \in {2, 3, 4}, k \in {1, 2} :
    /\ now = 0
    /\ userSecurity = [u \in Users |-> UserSecurityRow(HashPassword(PasswordOf(u), u))]
    /\ wallets = [SetUpWallets EXCEPT ![<<1, "solana">>].encryptedPrivateKey = b,
                                      ![<<1, "solana">>].encryptionVersion = v]
    /\ loginAttempts = [u \in Users |-> <<>>]
    /\ sessions = [CreateSession(EmptyMap, 2, 0) EXCEPT ![2].encryptedKeys =
                     MapPut(EmptyMap, "base",
                            [fields |-> f, key |-> <<"session", "", k>>,
                             data |-> SecretOf(2, "base")])]
    /\ whitelist = {}
    /\ NoOrders

BlobsNext ==
  \/ \E pw \in CustodyPasswords :
       /\ AttemptRows(loginAttempts, Users) < MaxCustodyAttempts
       /\ Unlock(1, pw)
  \/ \E u \in Users : Lock(u)
  \/ \E n \in Networks, pw \in CustodyPasswords : MigrateWallet(1, n, pw)
  \/ \E cur \in CustodyPasswords, new \in CustodyPasswords :
       /\ AttemptRows(loginAttempts, Users) < MaxCustodyAttempts
       /\ ChangePassword(1, cur, new)

SpecBlobs == BlobsInit /\ [][BlobsNext]_vars

\* C35: decryption fails closed and goes by the field count: a stored
\* ciphertext yields a value from decryptLegacy only if it has 2 fields and
\* was written under that server key, from decryptWithPassword only if it
\* has 4 fields and was written under that password and user id, from the
\* session decrypt only if it has 3 fields and was written under that
\* session key, and the value is then the plaintext that was encrypted; in
\* every other case the result is "no value".  decryptPrivateKey returns the
\* plaintext or "no value" likewise.
C35_DecryptFailsClosed ==
  /\ \A k \in DOMAIN wallets :
       LET blob == wallets[k].encryptedPrivateKey IN
       /\ \A sk \in {WalletEncryptionKey, "otherkey"} :
            DecryptLegacy(blob, sk)
              = IF blob.fields = 2 /\ blob.key = <<"server", sk, 0>>
                THEN Some(blob.data) ELSE None
       /\ \A pw \in CustodyPasswords, u \in Users :
            /\ DecryptWithPassword(blob, pw, u)
                 = IF blob.fields = 4
                      /\ blob.key = <<"password", DeriveKeyFromPassword(pw, u)>>
                   THEN Some(blob.data) ELSE None
            /\ DecryptPrivateKey(wallets, k[1], k[2], pw) \in {None, Some(blob.data)}
            /\ DecryptPrivateKey(wallets, k[1], k[2], pw) # None
                 => \/ blob.fields = 2 /\ blob.key = <<"server", WalletEncryptionKey, 0>>
                    \/ /\ blob.fields = 4
                       /\ blob.key = <<"password", DeriveKeyFromPassword(pw, k[1])>>
  /\ \A u \in DOMAIN sessions : \A n \in DOMAIN sessions[u].encryptedKeys :
       LET blob == sessions[u].encryptedKeys[n] IN
       \A sk \in 1..MAX_SESSIONS :
         SessionDecrypt(sk, blob)
           = IF blob.fields = 3 /\ blob.key = <<"session", "", sk>>
             THEN Some(blob.data) ELSE None

----------------------------------------------------------------------------
(* Sell orders: the percentage of the holdings is turned into a token      *)
(* amount when the order is executed.  One timer chain; the users place    *)
(* sell orders, and when an order is executed the balance read returns the *)
(* wallet's token accounts of the mint (one balance on base).              *)

\* the largest raw balance of a token account
MaxBalance == 3

\* parseInt on the percentage strings the order dialogue stores
ParseInt(str) == CASE str = "1" -> 1
                   [] str = "50" -> 50
                   [] str = "100" -> 100

\* what the balance read returns: balanceOf on base, the parsed token
\* accounts of the mint under both token programs on solana
TokenAccounts(network) ==
  IF network = "base" THEN {<<b>> : b \in 0..MaxBalance}
  ELSE {<<>>} \cup {<<b>> : b \in 0..MaxBalance}
       \cup {<<b, c>> : b \in 0..MaxBalance, c \in 0..MaxBalance}

\* sellBaseTokenPercentage / sellSolanaTokenPercentage up to the swap: the
\* balance is balanceOf on base and the first matching token account with a
\* positive balance on solana; the amount is balance * percentage / 100 in
\* BigInt arithmetic
SellTokenPercentage(network, accounts, percentage) ==
  LET positive == {j \in 1..Len(accounts) : accounts[j] > 0}
      balance == IF network = "base" THEN accounts[1]
                 ELSE IF positive = {} THEN 0
                 ELSE accounts[CHOOSE j \in positive : \A k \in positive : j <= k]
      sellAmount == (balance * percentage) \div 100
  IN IF balance = 0
     THEN [submitted |-> FALSE, amount |-> 0, error |-> "No token balance found"]
     ELSE IF sellAmount = 0
     THEN [submitted |-> FALSE, amount |-> 0,
           error |-> IF network = "base" THEN "Amount too small"
                     ELSE "Insufficient balance"]
     ELSE [submitted |-> TRUE, amount |-> sellAmount, error |-> ""]

\* the TransactionResult of the sell function for order id: the refusal, or
\* the result of the swap that was submitted for the amount
SellResult(id, accounts, swapped) ==
  LET sel == SellTokenPercentage(orders[id].network, accounts, ParseInt(orders[id].amount))
  IN IF ~sel.submitted THEN [success |-> FALSE, txHash |-> <<>>, error |-> sel.error]
     ELSE IF swapped
     THEN [success |-> TRUE, txHash |-> <<"tx", id, swapCalls[id], sel.amount>>,
           error |-> ""]
     ELSE [success |-> FALSE, txHash |-> <<>>, error |-> "Swap failed"]

\* the sell orders users place
SellParams ==
  { [telegramUserId |-> 1, chatId |-> 101, network |-> "solana", tokenAddress |-> "Tok",
     side |-> "sell", triggerType |-> "price", triggerCondition |-> "above",
     triggerValue |-> 2, amount |-> a] : a \in {"50", "100"} }
  \cup
  { [telegramUserId |-> 2, chatId |-> 102, network |-> "base", tokenAddress |-> "0xAB",
     side |-> "sell", triggerType |-> "marketcap", triggerCondition |-> "below",
     triggerValue |-> 2, amount |-> a] : a \in {"1", "50"} }

SellNext ==
  \/ \E prm \in SellParams : CreateOrder(prm)
  \/ SchedTimerFire
  \/ SchedFetchReturn
  \/ \E p \in Loops :
       /\ loops[p].pc = "swap"
       /\ LET id == loops[p].active[loops[p].oi] IN
          \E accounts \in TokenAccounts(orders[id].network), swapped \in BOOLEAN :
            SwapReturn(p, SellResult(id, accounts, swapped))
  \/ SchedNotifyReturn

SpecSell == SchedInit /\ [][SellNext]_vars

\* C36: for a sell order that is being executed, whatever the balance read
\* returns at that moment: with holdings the sum of the wallet's balances of
\* the token and amount = floor(holdings * percentage / 100), when amount is
\* 0 (no holdings, or the amount rounds down to 0) no swap is submitted and
\* the order ends 'failed' with a no-balance or amount-too-small error and no
\* txHash; otherwise a swap is submitted for exactly that amount.  The order
\* row holds the percentage as it was given at creation, never an amount.
C36_SellAmountAtExecution ==
  \A p \in Loops :
    loops[p].pc = "swap" =>
      LET id == loops[p].active[loops[p].oi]
          o == orders[id]
      IN /\ o.amount \in {prm.amount : prm \in SellParams}
         /\ \A accounts \in TokenAccounts(o.network) :
              LET holdings == IF Len(accounts) = 0 THEN 0
                              ELSE IF Len(accounts) = 1 THEN accounts[1]
                              ELSE accounts[1] + accounts[2]
                  amount == (holdings * ParseInt(o.amount)) \div 100
                  sel == SellTokenPercentage(o.network, accounts, ParseInt(o.amount))
                  failed == OrderFailed(StepState(p), p, id,
                                        SellResult(id, accounts, TRUE).error,
                                        isMonitoring, bot, now).orders[id]
              IN IF amount = 0
                 THEN /\ ~sel.submitted
                      /\ ~SellResult(id, accounts, TRUE).success
                      /\ failed.status = "failed"
                      /\ failed.error \in {Some("No token balance found"),
                                           Some("Amount too small"),
                                           Some("Insufficient balance")}
                      /\ failed.txHash = None
                 ELSE /\ sel.submitted
                      /\ sel.amount = amount
                      /\ SellResult(id, accounts, TRUE).txHash[4] = amount

----------------------------------------------------------------------------
\* C37: the custody operations keep this invariant: every wallet stored at
\* encryptionVersion 2 of a user who has a password decrypts under the
\* password that the stored hash verifies.  A step that leaves the wallet
\* rows in that condition, other than a write of a server-key ciphertext by
\* the legacy handlers, leads to wallet rows in that condition.
C37_Version2DecryptsUnderPassword ==
  [][LET Good(ws, us) ==
           \A k \in DOMAIN ws :
             (ws[k].encryptionVersion = 2 /\ HasUserSecurity(us, k[1])) =>
               \A pw \in CustodyPasswords :
                 VerifyPassword(pw, k[1], us[k[1]].passwordHash)
                   => DecryptPrivateKey(ws, k[1], k[2], pw) # None
         legacyWrite ==
           \E k \in DOMAIN wallets' :
             /\ wallets'[k].encryptedPrivateKey.fields = 2
             /\ (k \notin DOMAIN wallets \/ wallets'[k] # wallets[k])
     IN (Good(wallets, userSecurity) /\ ~legacyWrite)
          => Good(wallets', userSecurity')]_vars

----------------------------------------------------------------------------
(* The locked-out specification: from the state of the lockout            *)
(* specification, user 1 unlocks, verifies a password for an action and   *)
(* changes the password, with the right or a wrong password, while the    *)
(* clock advances in steps of five minutes.                               *)

\* verifyPasswordForAction: what it returns and the login_attempts table it
\* leaves
VerifyPasswordForActionOutcome(la, us, u, password, t) ==
  IF ~HasUserSecurity(us, u) THEN [valid |-> FALSE, loginAttempts |-> la]
  ELSE LET valid == VerifyPassword(password, u, us[u].passwordHash)
       IN [valid |-> valid, loginAttempts |-> RecordLoginAttempt(la, u, valid, t)]

LockedNext ==
  \/ \E pw \in LockoutPasswords(1) :
       AttemptRows(loginAttempts, Users) < MaxAttempts /\ Unlock(1, pw)
  \/ \E pw \in LockoutPasswords(1) :
       /\ AttemptRows(loginAttempts, Users) < MaxAttempts
       /\ loginAttempts' = VerifyPasswordForActionOutcome(
                             loginAttempts, userSecurity, 1, pw, now).loginAttempts
       /\ UNCHANGED <<now, userSecurity, wallets, sessions, whitelist, schedVars>>
  \/ \E cur \in LockoutPasswords(1) : \E new \in {"secret2", "short"} :
       AttemptRows(loginAttempts, Users) < MaxAttempts /\ ChangePassword(1, cur, new)
  \/ now + 5 <= MaxTime /\ Tick(5)

SpecLocked == LockoutInit /\ [][LockedNext]_vars

\* C38: while a user is locked out, unlock, changePassword and
\* verifyPasswordForAction reject the right password as they reject a wrong
\* one (same result, same error), and none of them changes the password hash
\* or creates a session.
C38_LockedOutRejectsEveryPassword ==
  \A u \in Users :
    IsLockedOut(loginAttempts, u, now).locked =>
      \A pw \in LockoutPasswords(u) :
        LET unl(p) == UnlockOutcome(loginAttempts, userSecurity, wallets, sessions,
                                    u, p, now)
            ver(p) == VerifyPasswordForActionOutcome(loginAttempts, userSecurity,
                                                     u, p, now)
            chg(p, new) == ChangePasswordOutcome(loginAttempts, userSecurity, wallets,
                                                 sessions, u, p, new, now)
        IN /\ ~unl(pw).success
           /\ unl(pw).error = unl("wrong1").error
           /\ DOMAIN unl(pw).sessions \subseteq DOMAIN sessions
           /\ ~ver(pw).valid
           /\ \A new \in {"secret2", "short"} :
                /\ ~chg(pw, new).success
                /\ chg(pw, new).error = chg("wrong1", new).error
                /\ chg(pw, new).userSecurity = userSecurity
                /\ DOMAIN chg(pw, new).sessions \subseteq DOMAIN sessions

----------------------------------------------------------------------------
\* C39: the session map never holds more than MAX_SESSIONS sessions (one per
\* user id, the key of the map), and a createSession for any user, with or
\* without a session, in a full map or not, leaves at most MAX_SESSIONS
\* sessions, that user's among them, which is a new one holding no keys.
C39_SessionTableBounded ==
  /\ Cardinality(DOMAIN sessions) <= MAX_SESSIONS
  /\ \A u \in 1..(MAX_SESSIONS + 1) :
       LET created == CreateSession(sessions, u, now)
       IN /\ Cardinality(DOMAIN created) <= MAX_SESSIONS
          /\ u \in DOMAIN created
          /\ created[u].encryptedKeys = EmptyMap
          /\ created[u].unlockedAt = now
          /\ created[u].expiresAt = now + SESSION_TIMEOUT_MIN

\* both users hold a session with cached keys, the later one created in a
\* full map at the cost of the oldest session, which had not expired
C39_Witness ==
  /\ {1, 2} \subseteq DOMAIN sessions
  /\ 3 \notin DOMAIN sessions
  /\ now <= SESSION_TIMEOUT_MIN
  /\ \A u \in {1, 2} : sessions[u].encryptedKeys # EmptyMap
  /\ \E u \in {1, 2} : sessions[u].unlockedAt > 5

====
